---- MODULE Spec2Model ----
(***************************************************************************)
(* Session / lobby / round coordinator of nobadvibesdotgames.              *)
(*                                                                         *)
(* The repository holds two coordinators: the socket.io server            *)
(* (src/server.ts: in-memory lobbies, members keyed by connection id,      *)
(* synchronous handlers) and the service layer (lobby.service /            *)
(* game.service: lobby and member records in a shared cache, members keyed *)
(* by a durable player id, asynchronous handlers).                         *)
(*                                                                         *)
(* Specifications (all over the same handler definitions):                 *)
(*   Spec         a lobby and its rounds, one event at a time, under       *)
(*                either coordinator (chosen in Init by impl)              *)
(*   DropSpec     server.ts with dropped connections, returning users and  *)
(*                the 5 s grace timers; DropFairSpec adds that every       *)
(*                timer callback runs                                      *)
(*   ConcSpec     game.service submitClue calls overlapping at their       *)
(*                awaits                                                   *)
(*   TallySpec    the vote tally of each coordinator on every ballot       *)
(***************************************************************************)
EXTENDS Integers, Sequences, FiniteSets, TLC

\* ------------------------------------------------------------------ bounds
\* connections ever opened in a behaviour with reconnections (DropSpec)
MaxSock == 4

\* ------------------------------------------------------- program constants
MaxPlayersSrv == 10
MinPlayersSrv == 3

\* display names; the user behind the k-th connection is called NameSeq[k],
\* later connections (reconnecting or new users) may use any of the names
NameSeq == <<"a", "b", "c">>
Names == {NameSeq[i] : i \in DOMAIN NameSeq}
Codes == {"ABCD"}
ClueTexts == {"hint"}
\* null / undefined, for string-valued fields
Null == "<null>"
\* null / undefined / '' for id-valued fields (every one of them is falsy and
\* names no connection)
NoId == 0

\* categories (server.ts:15): one category with two words is kept
CATEGORIES == [Animals |-> {"Dog", "Cat"}]
CategoryNames == DOMAIN CATEGORIES
GuessTexts == {"Dog", " dog ", "Cat"}

\* (mutation: the strings are compared as typed)
LowerTrimNot(w) == w

\* guess.toLowerCase().trim() on the strings the model uses
LowerTrim(w) ==
    CASE w = "Dog"   -> "dog"
      [] w = " dog " -> "dog"
      [] w = "Cat"   -> "cat"
      [] OTHER       -> w

VARIABLES
    impl,       \* "server" | "service" | "client" | "overlap" | "joining" | "tally" |
                \* "session" | "identity" | "codes" | "audit"
    sockNext,   \* server: number of connections opened so far
    conns,      \* server: ids of the live connections
    lobbies,    \* server: Map<string, Lobby> (a function on the codes present)
    timers,     \* server: pending setTimeout callbacks of 'disconnect'
    out,        \* events emitted by the last handler / value returned by the last call
    redisLobby,         \* service: LobbyState stored under REDIS_KEYS.lobby(code)
    redisLobbyPlayers,  \* service: list stored under REDIS_KEYS.lobbyPlayers(code)
    calls,      \* service: the submitClue calls in flight, with their local copies
    ballots,    \* tally: the votes of a round, in the order they were cast
    tallied,    \* tally: the winner each implementation computes
    session,    \* session.service: the Redis keys of the connection registry
    db,         \* Prisma: the rows of the player table, the codes of live games
    ctx         \* GameContext: the state of each client, the channel, its timers

svcVars == <<redisLobby, redisLobbyPlayers, calls, ballots, tallied, session, db, ctx>>
vars == <<impl, sockNext, conns, lobbies, timers, out, redisLobby, redisLobbyPlayers, calls,
          ballots, tallied, session, db, ctx>>

\* no key of the connection registry is set; the tables are empty
NoSession == [socketToPlayer |-> << >>, playerToSocket |-> << >>,
              playerToLobby |-> << >>, reconnectQueue |-> << >>]
NoDb == [player |-> << >>, game |-> {}]
\* no client has joined a channel
NoCtx == [clients |-> << >>, inbox |-> << >>, timers |-> {}]

\* ----------------------------------------------------------------- helpers
Range(s) == {s[i] : i \in DOMAIN s}

RemoveAt(s, i) == SubSeq(s, 1, i - 1) \o SubSeq(s, i + 1, Len(s))

\* Array.prototype.findIndex, 1-based; 0 when nothing matches
FindIndex(s, P(_)) ==
    IF \E i \in DOMAIN s : P(s[i])
    THEN CHOOSE i \in DOMAIN s : P(s[i]) /\ \A j \in 1..(i - 1) : ~P(s[j])
    ELSE 0

\* the rearrangements of the positions of s
Perms(s) ==
    {p \in [DOMAIN s -> DOMAIN s] : \A i, j \in DOMAIN s : i # j => p[i] # p[j]}

\* the values of Math.floor(Math.random() * (i + 1)) of one shuffle, as
\* 1-based positions: draws[i] is any position up to i
Draws(n) == {d \in [1..n -> 1..n] : \A i \in 1..n : d[i] <= i}

\* [shuffled[i], shuffled[j]] = [shuffled[j], shuffled[i]]
Swap(shuffled, i, j) == [shuffled EXCEPT ![i] = shuffled[j], ![j] = shuffled[i]]

\* for (let i = shuffled.length - 1; i > 0; i--), 1-based
RECURSIVE FisherYates(_, _, _)
FisherYates(shuffled, i, draws) ==
    IF i <= 1 THEN shuffled
    ELSE FisherYates(Swap(shuffled, i, draws[i]), i - 1, draws)

\* (mutation: each position takes the drawn element, nothing is swapped)
shuffleArrayPick(s) == {[i \in DOMAIN s |-> s[d[i]]] : d \in Draws(Len(s))}

\* every array shuffleArray can return
shuffleArray(s) == {FisherYates(s, Len(s), d) : d \in Draws(Len(s))}

\* An emitted event: a broadcast to the lobby's room (io.to(code).emit), or
\* a reply to the sending connection (socket.emit).  Payloads are not kept,
\* except the secretWord field of the round-start messages.
ToRoom(ev, code) == <<ev, code>>
ToSock(ev, s) == <<ev, "sender">>

\* -------------------------------------------------------------- server.ts
\* Player objects are shared between lobby.players and lobby.playerOrder
\* (start-game copies the array, not the objects).  Within one lobby a name
\* identifies one object, so a field write goes to both views by name.
NewPlayer(s, n, h) ==
    [id |-> s, name |-> n, isHost |-> h, clue |-> Null, vote |-> NoId,
     hasVoted |-> FALSE, disc |-> NoId]

NewLobby(s, n) ==
    [host |-> s, players |-> <<NewPlayer(s, n, TRUE)>>, state |-> "waiting",
     category |-> Null, secretWord |-> Null, chameleonId |-> NoId,
     playerOrder |-> <<>>, currentPlayerIndex |-> 0,
     caughtChameleon |-> FALSE, chameleonGuessedCorrectly |-> FALSE]

\* lobby.allWords is always the word list of lobby.category
allWords(lobby) ==
    IF lobby.category = Null THEN {} ELSE CATEGORIES[lobby.category]

WriteObj(seq, n, f(_)) ==
    [i \in DOMAIN seq |-> IF seq[i].name = n THEN f(seq[i]) ELSE seq[i]]

\* a field write to the Player object named n, seen through both arrays
WritePlayer(lobby, n, f(_)) ==
    [lobby EXCEPT !.players = WriteObj(lobby.players, n, f),
                  !.playerOrder = WriteObj(lobby.playerOrder, n, f)]

\* io.on('connection'): a connection is opened with a fresh id.  A connection
\* that has not yet sent anything is indistinguishable from one opened later,
\* so it is opened at its first create / join / rejoin event.
Fresh(s) == s = sockNext + 1
Sender(s) == s \in conns \/ Fresh(s)

\* Environment: a user opens a connection to join or rejoin a lobby that exists
Known(s, code) == Fresh(s) => code \in DOMAIN lobbies

\* the connection s is bound to a member of the lobby
IsMember(lobby, s) == \E i \in DOMAIN lobby.players : lobby.players[i].id = s

\* Environment: the client sends join-lobby / rejoin-lobby for a lobby only
\* from a connection that is not already bound to one of its members.
Outside(s, code) == code \in DOMAIN lobbies => ~IsMember(lobbies[code], s)

\* Environment: the display name the user of connection s types
Types(s, n) == s \in DOMAIN NameSeq => n = NameSeq[s]

Arrive(s) ==
    /\ conns' = conns \cup {s}
    /\ sockNext' = IF s > sockNext THEN s ELSE sockNext

\* generateCode never returns the code of an existing lobby; pool is the set
\* of codes it can draw
CreateLobbyIn(pool, s, n) ==
    /\ impl = "server"
    /\ Sender(s) /\ Arrive(s)
    /\ Types(s, n)
    /\ \E code \in pool \ DOMAIN lobbies :
        /\ lobbies' = [c \in DOMAIN lobbies \cup {code} |->
                          IF c = code THEN NewLobby(s, n) ELSE lobbies[c]]
        /\ out' = {ToSock("lobby-created", s)}
    /\ UNCHANGED <<impl, timers>>
    /\ UNCHANGED svcVars

CreateLobby(s, n) == CreateLobbyIn(Codes, s, n)

JoinLobby(s, code, n) ==
    /\ impl = "server"
    /\ Sender(s) /\ Arrive(s)
    /\ Types(s, n)
    /\ Known(s, code)
    /\ Outside(s, code)
    /\ IF code \notin DOMAIN lobbies
       THEN out' = {ToSock("error", s)} /\ UNCHANGED lobbies
       ELSE LET lobby == lobbies[code] IN
            IF \/ lobby.state # "waiting"
               \/ Len(lobby.players) >= MaxPlayersSrv
               \/ \E i \in DOMAIN lobby.players : lobby.players[i].name = n
            THEN out' = {ToSock("error", s)} /\ UNCHANGED lobbies
            ELSE /\ lobbies' = [lobbies EXCEPT ![code].players =
                                   Append(@, NewPlayer(s, n, FALSE))]
                 /\ out' = {ToSock("lobby-joined", s), ToRoom("player-joined", code)}
    /\ UNCHANGED <<impl, timers>>
    /\ UNCHANGED svcVars

\* the lobby after a rejoin that found the member named n (server.ts:170-184)
Rebind(lobby, n, s) ==
    LET idx   == FindIndex(lobby.players, LAMBDA p : p.name = n)
        oldId == lobby.players[idx].id
        l1    == WritePlayer(lobby, n, LAMBDA p : [p EXCEPT !.id = s, !.disc = NoId])
        l2    == [l1 EXCEPT !.host = IF @ = oldId THEN s ELSE @,
                            !.chameleonId = IF @ = oldId THEN s ELSE @]
        j     == FindIndex(l2.playerOrder, LAMBDA p : p.id = oldId)
    IN  IF j = 0 THEN l2
        ELSE WritePlayer(l2, l2.playerOrder[j].name, LAMBDA p : [p EXCEPT !.id = s])

RejoinLobby(s, code, n) ==
    /\ impl = "server"
    /\ Sender(s) /\ Arrive(s)
    /\ Types(s, n)
    /\ Known(s, code)
    /\ Outside(s, code)
    /\ IF code \notin DOMAIN lobbies
       THEN out' = {ToSock("rejoin-failed", s)} /\ UNCHANGED lobbies
       ELSE LET lobby == lobbies[code] IN
            IF FindIndex(lobby.players, LAMBDA p : p.name = n) = 0
            THEN IF lobby.state = "waiting" /\ Len(lobby.players) < MaxPlayersSrv
                 THEN /\ lobbies' = [lobbies EXCEPT ![code].players =
                                        Append(@, NewPlayer(s, n, FALSE))]
                      /\ out' = {ToSock("rejoin-success", s),
                                 ToRoom("player-joined", code)}
                 ELSE out' = {ToSock("rejoin-failed", s)} /\ UNCHANGED lobbies
            ELSE /\ lobbies' = [lobbies EXCEPT ![code] = Rebind(lobby, n, s)]
                 /\ out' = {ToSock("rejoin-success", s)}
    /\ UNCHANGED <<impl, timers>>
    /\ UNCHANGED svcVars

\* lobbies without the entry for code
Without(code) == [c \in DOMAIN lobbies \ {code} |-> lobbies[c]]

\* (mutation: the host pointer moves, the member's flag does not)
PromotePointerOnly(lobby) == [lobby EXCEPT !.host = lobby.players[1].id]

\* host transfer after a removal (server.ts:213-216, 452-455)
PromoteFirst(lobby) ==
    LET l1 == WritePlayer(lobby, lobby.players[1].name,
                          LAMBDA p : [p EXCEPT !.isHost = TRUE])
    IN  [l1 EXCEPT !.host = l1.players[1].id]

\* (mutation: the lobby is kept when its last member leaves)
LeaveLobbyKeep(s, code) ==
    /\ impl = "server"
    /\ s \in conns
    /\ IF code \notin DOMAIN lobbies
       THEN out' = {} /\ UNCHANGED lobbies
       ELSE LET lobby == lobbies[code]
                idx   == FindIndex(lobby.players, LAMBDA p : p.id = s)
            IN  IF idx = 0
                THEN out' = {} /\ UNCHANGED lobbies
                ELSE LET player == lobby.players[idx]
                         l1 == [lobby EXCEPT !.players = RemoveAt(@, idx)]
                     IN  /\ lobbies' = [lobbies EXCEPT ![code] =
                                IF player.isHost /\ Len(l1.players) > 0
                                THEN PromoteFirst(l1) ELSE l1]
                         /\ out' = {ToRoom("player-left", code)}
    /\ UNCHANGED <<impl, sockNext, conns, timers>>
    /\ UNCHANGED svcVars

LeaveLobby(s, code) ==
    /\ impl = "server"
    /\ s \in conns
    /\ IF code \notin DOMAIN lobbies
       THEN out' = {} /\ UNCHANGED lobbies
       ELSE LET lobby == lobbies[code]
                idx   == FindIndex(lobby.players, LAMBDA p : p.id = s)
            IN  IF idx = 0
                THEN out' = {} /\ UNCHANGED lobbies
                ELSE LET player == lobby.players[idx]
                         l1 == [lobby EXCEPT !.players = RemoveAt(@, idx)]
                     IN  IF Len(l1.players) = 0
                         THEN lobbies' = Without(code) /\ out' = {}
                         ELSE /\ lobbies' = [lobbies EXCEPT ![code] =
                                    IF player.isHost THEN PromoteFirst(l1) ELSE l1]
                              /\ out' = {ToRoom("player-left", code)}
    /\ UNCHANGED <<impl, sockNext, conns, timers>>
    /\ UNCHANGED svcVars

StartedLobby(lobby, category, secretWord, chameleonIndex, order) ==
    LET l1 == [lobby EXCEPT !.state = "playing",
                            !.category = category,
                            !.secretWord = secretWord,
                            !.chameleonId = lobby.players[chameleonIndex].id,
                            !.currentPlayerIndex = 0]
        cleared == [i \in DOMAIN l1.players |->
                       [l1.players[i] EXCEPT !.clue = Null, !.vote = NoId,
                                             !.hasVoted = FALSE]]
    IN  [l1 EXCEPT !.players = cleared,
                   !.playerOrder = [i \in DOMAIN order |-> cleared[order[i]]]]

\* io.to(p.id).emit('game-started', ...) for every member p: the recipient
\* and the secretWord field of the payload (server.ts:249-260)
gameStarted(lobby) ==
    {<<"game-started", lobby.players[i].id,
       IF lobby.players[i].id = lobby.chameleonId THEN Null ELSE lobby.secretWord>> :
          i \in DOMAIN lobby.players}

\* (mutation: start-game without the check of the member count)
StartGameUnchecked(s, code, words, orders) ==
    /\ impl = "server"
    /\ s \in conns
    /\ IF code \notin DOMAIN lobbies \/ lobbies[code].host # s
       THEN out' = {} /\ UNCHANGED lobbies
       ELSE LET lobby == lobbies[code] IN
            \E category \in CategoryNames :
            \E secretWord \in CATEGORIES[category] \cap words :
            \E chameleonIndex \in DOMAIN lobby.players :
            \E order \in shuffleArray([i \in DOMAIN lobby.players |-> i]) \cap orders :
               /\ lobbies' = [lobbies EXCEPT ![code] =
                     StartedLobby(lobby, category, secretWord, chameleonIndex, order)]
               /\ out' = gameStarted(
                     StartedLobby(lobby, category, secretWord, chameleonIndex, order))
    /\ UNCHANGED <<impl, sockNext, conns, timers>>
    /\ UNCHANGED svcVars

\* The outcomes of Math.random are inputs: words are the (category, word)
\* pairs it may pick, orders the permutations shuffleArray may return
\* (positions of lobby.players), chameleonIndex any index.
StartGame(s, code, words, orders) ==
    /\ impl = "server"
    /\ s \in conns
    /\ IF \/ code \notin DOMAIN lobbies
          \/ lobbies[code].host # s
          \/ Len(lobbies[code].players) < MinPlayersSrv
       THEN out' = {} /\ UNCHANGED lobbies
       ELSE LET lobby == lobbies[code] IN
            \E category \in CategoryNames :
            \E secretWord \in CATEGORIES[category] \cap words :
            \E chameleonIndex \in DOMAIN lobby.players :
            \E order \in shuffleArray([i \in DOMAIN lobby.players |-> i]) \cap orders :
               /\ lobbies' = [lobbies EXCEPT ![code] =
                     StartedLobby(lobby, category, secretWord, chameleonIndex, order)]
               /\ out' = gameStarted(
                     StartedLobby(lobby, category, secretWord, chameleonIndex, order))
    /\ UNCHANGED <<impl, sockNext, conns, timers>>
    /\ UNCHANGED svcVars

\* ------------------------------------------------------------ vote tally
\* keys of the tally object, in the order of their first insertion
RECURSIVE FirstSeen(_)
FirstSeen(targets) ==
    IF targets = <<>> THEN <<>>
    ELSE LET front == FirstSeen(SubSeq(targets, 1, Len(targets) - 1))
             last  == targets[Len(targets)]
         IN  IF last \in Range(front) THEN front ELSE Append(front, last)

Count(targets, x) == Cardinality({i \in DOMAIN targets : targets[i] = x})

\* (mutation: count >= maxVotes, the last tied candidate wins)
RECURSIVE MaxLoopLast(_, _, _, _)
MaxLoopLast(keys, targets, best, maxVotes) ==
    IF keys = <<>> THEN [mostVoted |-> best, maxVotes |-> maxVotes]
    ELSE LET count == Count(targets, Head(keys)) IN
         IF count >= maxVotes
         THEN MaxLoopLast(Tail(keys), targets, Head(keys), count)
         ELSE MaxLoopLast(Tail(keys), targets, best, maxVotes)

\* for (const [id, count] of Object.entries(tally)) if (count > maxVotes) ...
RECURSIVE MaxLoop(_, _, _, _)
MaxLoop(keys, targets, best, maxVotes) ==
    IF keys = <<>> THEN [mostVoted |-> best, maxVotes |-> maxVotes]
    ELSE LET count == Count(targets, Head(keys)) IN
         IF count > maxVotes
         THEN MaxLoop(Tail(keys), targets, Head(keys), count)
         ELSE MaxLoop(Tail(keys), targets, best, maxVotes)

\* the tally of the targets, given in the order in which the code adds them
\* to the tally object (ids are not integer-like strings, so the object keeps
\* its keys in insertion order)
Tally(targets) == MaxLoop(FirstSeen(targets), targets, NoId, 0)

\* showResults counts the votes in the order of lobby.players and skips
\* falsy votes
SrvTargets(players) ==
    LET votes == [i \in DOMAIN players |-> players[i].vote]
    IN  SelectSeq(votes, LAMBDA v : v # NoId)

showFinalResults(lobby) == [lobby EXCEPT !.state = "results"]

showResults(lobby) ==
    LET r  == Tally(SrvTargets(lobby.players))
        caught == r.mostVoted = lobby.chameleonId
        l1 == [lobby EXCEPT !.caughtChameleon = caught]
    IN  IF caught
        THEN [l1 EXCEPT !.state = "chameleon-guessing"]
        ELSE showFinalResults([l1 EXCEPT !.chameleonGuessedCorrectly = FALSE])

showResultsOut(lobby, code) ==
    IF Tally(SrvTargets(lobby.players)).mostVoted = lobby.chameleonId
    THEN {ToRoom("chameleon-guess-phase", code)}
    ELSE {ToRoom("game-results", code)}

\* ------------------------------------------------------------- the round
SubmitClue(s, code, clue) ==
    /\ impl = "server"
    /\ s \in conns
    /\ IF code \notin DOMAIN lobbies \/ lobbies[code].state # "playing"
       THEN out' = {} /\ UNCHANGED lobbies
       ELSE LET lobby == lobbies[code]
                currentPlayer == lobby.playerOrder[lobby.currentPlayerIndex + 1]
                idx == FindIndex(lobby.players, LAMBDA p : p.id = s)
            IN  IF currentPlayer.id # s \/ idx = 0
                THEN out' = {} /\ UNCHANGED lobbies
                ELSE LET l1 == WritePlayer(lobby, lobby.players[idx].name,
                                           LAMBDA p : [p EXCEPT !.clue = clue])
                         l2 == [l1 EXCEPT !.currentPlayerIndex = @ + 1]
                     IN  IF l2.currentPlayerIndex < Len(l2.playerOrder)
                         THEN /\ lobbies' = [lobbies EXCEPT ![code] = l2]
                              /\ out' = {ToRoom("clue-submitted", code),
                                         ToRoom("next-player", code)}
                         ELSE /\ lobbies' = [lobbies EXCEPT ![code] =
                                                [l2 EXCEPT !.state = "voting"]]
                              /\ out' = {ToRoom("clue-submitted", code),
                                         ToRoom("voting-phase", code)}
    /\ UNCHANGED <<impl, sockNext, conns, timers>>
    /\ UNCHANGED svcVars

SubmitVote(s, code, votedPlayerId) ==
    /\ impl = "server"
    /\ s \in conns
    /\ IF code \notin DOMAIN lobbies \/ lobbies[code].state # "voting"
       THEN out' = {} /\ UNCHANGED lobbies
       ELSE LET lobby == lobbies[code]
                idx == FindIndex(lobby.players, LAMBDA p : p.id = s)
            IN  IF idx = 0 \/ lobby.players[idx].hasVoted
                THEN out' = {} /\ UNCHANGED lobbies
                ELSE LET l1 == WritePlayer(lobby, lobby.players[idx].name,
                                  LAMBDA p : [p EXCEPT !.vote = votedPlayerId,
                                                       !.hasVoted = TRUE])
                         votesCount == Cardinality({i \in DOMAIN l1.players :
                                                       l1.players[i].hasVoted})
                     IN  IF votesCount = Len(l1.players)
                         THEN /\ lobbies' = [lobbies EXCEPT ![code] = showResults(l1)]
                              /\ out' = {ToRoom("vote-cast", code)}
                                            \cup showResultsOut(l1, code)
                         ELSE /\ lobbies' = [lobbies EXCEPT ![code] = l1]
                              /\ out' = {ToRoom("vote-cast", code)}
    /\ UNCHANGED <<impl, sockNext, conns, timers>>
    /\ UNCHANGED svcVars

ChameleonGuess(s, code, guess) ==
    /\ impl = "server"
    /\ s \in conns
    /\ IF \/ code \notin DOMAIN lobbies
          \/ lobbies[code].state # "chameleon-guessing"
          \/ s # lobbies[code].chameleonId
       THEN out' = {} /\ UNCHANGED lobbies
       ELSE /\ lobbies' = [lobbies EXCEPT ![code] = showFinalResults(
                   [@ EXCEPT !.chameleonGuessedCorrectly =
                                 LowerTrim(guess) = LowerTrim(lobbies[code].secretWord)])]
            /\ out' = {ToRoom("game-results", code)}
    /\ UNCHANGED <<impl, sockNext, conns, timers>>
    /\ UNCHANGED svcVars

\* the fields play-again resets (server.ts:404-422)
ResetForReplay(lobby) ==
    [lobby EXCEPT !.state = "waiting", !.category = Null, !.secretWord = Null,
                  !.chameleonId = NoId, !.playerOrder = <<>>,
                  !.currentPlayerIndex = 0, !.caughtChameleon = FALSE,
                  !.chameleonGuessedCorrectly = FALSE,
                  !.players = [i \in DOMAIN @ |->
                                 [@[i] EXCEPT !.clue = Null, !.vote = NoId,
                                              !.hasVoted = FALSE]]]

PlayAgain(s, code) ==
    /\ impl = "server"
    /\ s \in conns
    /\ IF code \notin DOMAIN lobbies \/ lobbies[code].host # s
       THEN out' = {} /\ UNCHANGED lobbies
       ELSE /\ lobbies' = [lobbies EXCEPT ![code] = ResetForReplay(@)]
            /\ out' = {ToRoom("reset-lobby", code)}
    /\ UNCHANGED <<impl, sockNext, conns, timers>>
    /\ UNCHANGED svcVars

\* ----------------------------------------------- disconnect and its timer
\* the first lobby holding a member bound to s ('disconnect' stops at it)
LobbyOf(s) ==
    IF \E c \in DOMAIN lobbies : IsMember(lobbies[c], s)
    THEN {CHOOSE c \in DOMAIN lobbies : IsMember(lobbies[c], s)}
    ELSE {}

Disconnect(s) ==
    /\ impl = "server"
    /\ s \in conns
    /\ conns' = conns \ {s}
    /\ out' = {}
    /\ IF LobbyOf(s) = {}
       THEN UNCHANGED <<lobbies, timers>>
       ELSE \E code \in LobbyOf(s) :
            LET lobby == lobbies[code]
                idx == FindIndex(lobby.players, LAMBDA p : p.id = s)
                playerName == lobby.players[idx].name
            IN  /\ lobbies' = [lobbies EXCEPT ![code] =
                       WritePlayer(lobby, playerName, LAMBDA p : [p EXCEPT !.disc = s])]
                /\ timers' = timers \cup
                       {[code |-> code, playerName |-> playerName, socketId |-> s]}
    /\ UNCHANGED <<impl, sockNext>>
    /\ UNCHANGED svcVars

\* (mutation: the callback looks the member up by name alone)
ExpiredByName(lobby, t) ==
    FindIndex(lobby.players, LAMBDA p : p.name = t.playerName) # 0

\* the member the callback would remove: found by name, still marked with
\* the connection id the callback was created for (server.ts:440-441)
Expired(lobby, t) ==
    LET idx == FindIndex(lobby.players, LAMBDA p : p.name = t.playerName)
    IN  idx # 0 /\ lobby.players[idx].disc = t.socketId

\* (mutation: the callback leaves the round running)
InterruptNot(lobby) == lobby

\* the fields the callback resets when a round is interrupted (server.ts:458-464)
Interrupt(lobby) ==
    [lobby EXCEPT !.state = "waiting", !.category = Null, !.secretWord = Null,
                  !.chameleonId = NoId, !.playerOrder = <<>>,
                  !.currentPlayerIndex = 0]

\* the setTimeout callback of 'disconnect' fires, 5 s after the disconnect
FireTimer(t) ==
    /\ impl = "server"
    /\ t \in timers
    /\ timers' = timers \ {t}
    /\ IF t.code \notin DOMAIN lobbies \/ ~Expired(lobbies[t.code], t)
       THEN out' = {} /\ UNCHANGED lobbies
       ELSE LET lobby == lobbies[t.code]
                idx == FindIndex(lobby.players, LAMBDA p : p.name = t.playerName)
                currentPlayer == lobby.players[idx]
                l1 == [lobby EXCEPT !.players = RemoveAt(@, idx)]
            IN  IF Len(l1.players) = 0
                THEN lobbies' = Without(t.code) /\ out' = {}
                ELSE LET l2 == IF currentPlayer.isHost THEN PromoteFirst(l1) ELSE l1
                     IN  IF l2.state # "waiting"
                         THEN /\ lobbies' = [lobbies EXCEPT ![t.code] = Interrupt(l2)]
                              /\ out' = {ToRoom("game-interrupted", t.code)}
                         ELSE /\ lobbies' = [lobbies EXCEPT ![t.code] = l2]
                              /\ out' = {ToRoom("player-left", t.code)}
    /\ UNCHANGED <<impl, sockNext, conns>>
    /\ UNCHANGED svcVars

\* =========================================================== service layer
\* lobby.service / game.service keep a lobby under two Redis keys: the
\* LobbyState record and the list of LobbyPlayer records.  A call of a service
\* method that is not overlapped by another call is one atomic action.

\* LobbyService.createLobby: maxPlayers, minPlayers
MaxPlayers == 10
MinPlayers == 3

\* durable player ids; user k holds PidSeq[k], connection k and types NameSeq[k]
PidSeq == <<"p1", "p2", "p3">>
Pids == {PidSeq[i] : i \in DOMAIN PidSeq}
\* the empty string, which a client can send as an id
Empty == ""
\* a number field that is undefined
Undefined == -1

Ret(op, val) == {<<op, val>>}

getLobbyPlayers(code) ==
    IF code \in DOMAIN redisLobbyPlayers THEN redisLobbyPlayers[code] ELSE <<>>

\* (mutation: a new player is put in front of the list)
addPlayerToLobbyFront(players, player) ==
    IF \E i \in DOMAIN players : players[i].id = player.id
    THEN [i \in DOMAIN players |-> IF players[i].id = player.id THEN player ELSE players[i]]
    ELSE <<player>> \o players

\* addPlayerToLobby / updatePlayerInLobby on a players list
addPlayerToLobby(players, player) ==
    LET existingIndex == FindIndex(players, LAMBDA p : p.id = player.id)
    IN  IF existingIndex > 0
        THEN [players EXCEPT ![existingIndex] = player]
        ELSE Append(players, player)

NewLobbyState(hostPlayerId, hostSocketId) ==
    [hostId |-> hostPlayerId, hostSocketId |-> hostSocketId,
     status |-> "waiting", category |-> Null, secretWord |-> Null,
     chameleonId |-> Null, playerOrder |-> <<>>,
     currentPlayerIndex |-> Undefined, clues |-> <<>>, votes |-> <<>>]

svcUnchanged ==
    UNCHANGED <<impl, sockNext, conns, lobbies, timers, calls, ballots, tallied, session, db, ctx>>

\* generateCode returns a code that is not in use, or throws after ten
\* colliding attempts
SvcCreateLobby(hostPlayerId, hostSocketId, hostName) ==
    /\ impl \in {"service", "audit"}
    /\ \/ \E code \in Codes \ DOMAIN redisLobby :
             /\ redisLobby' = (code :> NewLobbyState(hostPlayerId, hostSocketId)) @@ redisLobby
             /\ redisLobbyPlayers' =
                   (code :> addPlayerToLobby(getLobbyPlayers(code),
                               [id |-> hostPlayerId, socketId |-> hostSocketId,
                                name |-> hostName, isHost |-> TRUE,
                                isConnected |-> TRUE])) @@ redisLobbyPlayers
             /\ out' = Ret("createLobby", code)
       \/ /\ DOMAIN redisLobby # {}
          /\ out' = Ret("createLobby", "throw")
          /\ UNCHANGED <<redisLobby, redisLobbyPlayers>>
    /\ svcUnchanged

SvcJoinLobby(code, playerId, socketId, playerName) ==
    /\ impl \in {"service", "audit"}
    /\ LET players == getLobbyPlayers(code)
           existing == FindIndex(players, LAMBDA p : p.id = playerId)
       IN  IF \/ code \notin DOMAIN redisLobby
              \/ redisLobby[code].status # "waiting"
              \/ Len(players) >= MaxPlayers
              \/ \E i \in DOMAIN players :
                    players[i].name = playerName /\ players[i].id # playerId
           THEN out' = Ret("joinLobby", "null") /\ UNCHANGED redisLobbyPlayers
           ELSE /\ out' = Ret("joinLobby", playerId)
                /\ redisLobbyPlayers' = [redisLobbyPlayers EXCEPT ![code] =
                      IF existing > 0
                      THEN addPlayerToLobby(players,
                              [players[existing] EXCEPT !.socketId = socketId,
                                                        !.isConnected = TRUE])
                      ELSE addPlayerToLobby(players,
                              [id |-> playerId, socketId |-> socketId,
                               name |-> playerName, isHost |-> FALSE,
                               isConnected |-> TRUE])]
    /\ UNCHANGED redisLobby
    /\ svcUnchanged

SvcLeaveLobby(code, playerId) ==
    /\ impl = "service"
    /\ LET players == getLobbyPlayers(code)
           playerIndex == FindIndex(players, LAMBDA p : p.id = playerId)
           rest == RemoveAt(players, playerIndex)
       IN  IF code \notin DOMAIN redisLobby \/ playerIndex = 0
           THEN /\ out' = Ret("leaveLobby", "not removed")
                /\ UNCHANGED <<redisLobby, redisLobbyPlayers>>
           ELSE IF rest = <<>>
           THEN /\ out' = Ret("leaveLobby", "lobbyDeleted")
                /\ redisLobby' = [c \in DOMAIN redisLobby \ {code} |-> redisLobby[c]]
                /\ redisLobbyPlayers' =
                      [c \in DOMAIN redisLobbyPlayers \ {code} |-> redisLobbyPlayers[c]]
           ELSE IF players[playerIndex].isHost
           THEN /\ out' = Ret("leaveLobby", rest[1].id)
                /\ redisLobby' = [redisLobby EXCEPT
                      ![code].hostId = rest[1].id,
                      ![code].hostSocketId = rest[1].socketId]
                /\ redisLobbyPlayers' = [redisLobbyPlayers EXCEPT
                      ![code] = [rest EXCEPT ![1].isHost = TRUE]]
           ELSE /\ out' = Ret("leaveLobby", "removed")
                /\ redisLobbyPlayers' = [redisLobbyPlayers EXCEPT ![code] = rest]
                /\ UNCHANGED redisLobby
    /\ svcUnchanged

\* (mutation: a disconnect takes the member off the list)
SvcDisconnectRemove(code, playerId) ==
    /\ impl = "service"
    /\ redisLobbyPlayers' = [c \in DOMAIN redisLobbyPlayers |->
          IF c = code
          THEN SelectSeq(redisLobbyPlayers[c], LAMBDA p : p.id # playerId)
          ELSE redisLobbyPlayers[c]]
    /\ out' = Ret("handlePlayerDisconnect", "void")
    /\ UNCHANGED redisLobby
    /\ svcUnchanged

\* handlePlayerDisconnect: the member is marked, nothing else changes
SvcDisconnect(code, playerId) ==
    /\ impl = "service"
    /\ LET players == getLobbyPlayers(code)
           idx == FindIndex(players, LAMBDA p : p.id = playerId)
       IN  IF idx = 0
           THEN UNCHANGED redisLobbyPlayers
           ELSE redisLobbyPlayers' = [redisLobbyPlayers EXCEPT ![code] =
                   addPlayerToLobby(players, [players[idx] EXCEPT !.isConnected = FALSE])]
    /\ out' = Ret("handlePlayerDisconnect", "void")
    /\ UNCHANGED redisLobby
    /\ svcUnchanged

\* handlePlayerReconnect: the member is bound to the new connection; the
\* host's connection is recorded in the LobbyState as well
SvcReconnect(code, playerId, newSocketId) ==
    /\ impl = "service"
    /\ LET players == getLobbyPlayers(code)
           idx == FindIndex(players, LAMBDA p : p.id = playerId)
       IN  IF code \notin DOMAIN redisLobby \/ idx = 0
           THEN /\ out' = Ret("handlePlayerReconnect", "null")
                /\ UNCHANGED <<redisLobby, redisLobbyPlayers>>
           ELSE /\ out' = Ret("handlePlayerReconnect", playerId)
                /\ redisLobby' = IF players[idx].isHost
                                 THEN [redisLobby EXCEPT ![code].hostSocketId = newSocketId]
                                 ELSE redisLobby
                /\ redisLobbyPlayers' = [redisLobbyPlayers EXCEPT ![code] =
                      addPlayerToLobby(players,
                         [players[idx] EXCEPT !.socketId = newSocketId,
                                              !.isConnected = TRUE])]
    /\ svcUnchanged

\* the LobbyState that startGame saves
StartedState(lobby, players, category, secretWord, chameleonIndex, order) ==
    [lobby EXCEPT !.status = "playing",
                  !.category = category,
                  !.secretWord = secretWord,
                  !.chameleonId = players[chameleonIndex].id,
                  !.playerOrder = [i \in DOMAIN order |-> players[order[i]].id],
                  !.currentPlayerIndex = 0,
                  !.clues = <<>>,
                  !.votes = <<>>]

SvcStartGame(code, words, orders) ==
    /\ impl \in {"service", "audit", "joining"}
    /\ LET players == getLobbyPlayers(code) IN
       IF \/ code \notin DOMAIN redisLobby
          \/ redisLobby[code].status # "waiting"
          \/ Len(players) < MinPlayers
       THEN out' = Ret("startGame", "null") /\ UNCHANGED redisLobby
       ELSE \E category \in CategoryNames :
            \E secretWord \in CATEGORIES[category] \cap words :
            \E chameleonIndex \in DOMAIN players :
            \E order \in shuffleArray([i \in DOMAIN players |-> i]) \cap orders :
               /\ redisLobby' = [redisLobby EXCEPT ![code] =
                     StartedState(@, players, category, secretWord, chameleonIndex, order)]
               /\ out' = Ret("startGame", category)
    /\ UNCHANGED redisLobbyPlayers
    /\ svcUnchanged

\* (mutation: the turn check compares with the first player of the order)
currentPlayerIdFirst(lobby) == lobby.playerOrder[1]

\* lobby.playerOrder![lobby.currentPlayerIndex!], undefined past the end
currentPlayerId(lobby) ==
    IF lobby.currentPlayerIndex + 1 \in DOMAIN lobby.playerOrder
    THEN lobby.playerOrder[lobby.currentPlayerIndex + 1]
    ELSE Null

\* (mutation: voting opens one clue later)
ClueAppliedLate(lobby, players, playerId, clue) ==
    [lobby EXCEPT !.clues = (playerId :> clue) @@ @,
                  !.currentPlayerIndex = @ + 1,
                  !.status = IF lobby.currentPlayerIndex + 1 > Len(players)
                             THEN "voting" ELSE @]

\* submitClue after the turn check: the handler's own copy of the LobbyState
ClueApplied(lobby, players, playerId, clue) ==
    LET index == (IF lobby.currentPlayerIndex = Undefined THEN 0
                  ELSE lobby.currentPlayerIndex) + 1
        allCluesSubmitted == index >= Len(players)
    IN  [lobby EXCEPT !.clues = (playerId :> clue) @@ @,
                      !.currentPlayerIndex = index,
                      !.status = IF allCluesSubmitted THEN "voting" ELSE @]

SvcSubmitClue(code, playerId, clue) ==
    /\ impl \in {"service", "audit", "joining"}
    /\ IF \/ code \notin DOMAIN redisLobby
          \/ redisLobby[code].status # "playing"
          \/ currentPlayerId(redisLobby[code]) # playerId
       THEN out' = Ret("submitClue", "false") /\ UNCHANGED redisLobby
       ELSE /\ redisLobby' = [redisLobby EXCEPT ![code] =
                  ClueApplied(@, getLobbyPlayers(code), playerId, clue)]
            /\ out' = Ret("submitClue", redisLobby'[code].status)
    /\ UNCHANGED redisLobbyPlayers
    /\ svcUnchanged

\* lobby.votes is an object: its keys keep the order in which they were added
VoteOf(votes, casterId) ==
    LET i == FindIndex(votes, LAMBDA v : v.caster = casterId)
    IN  IF i > 0 THEN votes[i].target ELSE Null

\* if (lobby.votes[casterId]): an empty string is falsy
HasVote(votes, casterId) == VoteOf(votes, casterId) \notin {Null, Empty}

SetVote(votes, casterId, targetId) ==
    LET i == FindIndex(votes, LAMBDA v : v.caster = casterId)
    IN  IF i > 0 THEN [votes EXCEPT ![i].target = targetId]
        ELSE Append(votes, [caster |-> casterId, target |-> targetId])

\* the tally loops of submitVote, getResults and game-engine tallyVotes
tallyVotes(votes) ==
    LET targets == [i \in DOMAIN votes |-> votes[i].target]
    IN  MaxLoop(FirstSeen(targets), targets, Empty, 0)

VoteApplied(lobby, players, casterId, targetId) ==
    LET voted == [lobby EXCEPT !.votes = SetVote(@, casterId, targetId)]
        allVotesIn == Len(voted.votes) >= Len(players)
        isChameleon == tallyVotes(voted.votes).mostVoted = lobby.chameleonId
    IN  IF ~allVotesIn THEN voted
        ELSE [voted EXCEPT !.status = IF isChameleon THEN "guessing" ELSE "finished"]

SvcSubmitVote(code, casterId, targetId) ==
    /\ impl \in {"service", "audit"}
    /\ IF \/ code \notin DOMAIN redisLobby
          \/ redisLobby[code].status # "voting"
          \/ HasVote(redisLobby[code].votes, casterId)
       THEN out' = Ret("submitVote", "false") /\ UNCHANGED redisLobby
       ELSE /\ redisLobby' = [redisLobby EXCEPT ![code] =
                  VoteApplied(@, getLobbyPlayers(code), casterId, targetId)]
            /\ out' = Ret("submitVote", redisLobby'[code].status)
    /\ UNCHANGED redisLobbyPlayers
    /\ svcUnchanged

SvcSubmitGuess(code, guess) ==
    /\ impl \in {"service", "audit"}
    /\ IF code \notin DOMAIN redisLobby \/ redisLobby[code].status # "guessing"
       THEN out' = Ret("submitGuess", "null") /\ UNCHANGED redisLobby
       ELSE /\ redisLobby' = [redisLobby EXCEPT ![code].status = "finished"]
            /\ out' = Ret("submitGuess",
                  IF LowerTrim(guess) = LowerTrim(redisLobby[code].secretWord)
                  THEN "chameleon" ELSE "players")
    /\ UNCHANGED redisLobbyPlayers
    /\ svcUnchanged

SvcResetLobby(code) ==
    /\ impl = "service"
    /\ IF code \notin DOMAIN redisLobby
       THEN out' = Ret("resetLobby", "null") /\ UNCHANGED redisLobby
       ELSE /\ redisLobby' = [redisLobby EXCEPT ![code] =
                  [@ EXCEPT !.status = "waiting", !.category = Null,
                            !.secretWord = Null, !.chameleonId = Null,
                            !.playerOrder = <<>>,
                            !.currentPlayerIndex = Undefined,
                            !.clues = <<>>, !.votes = <<>>]]
            /\ out' = Ret("resetLobby", "players")
    /\ UNCHANGED redisLobbyPlayers
    /\ svcUnchanged

\* ------------------------------------------- overlapping submitClue calls
\* Every await of submitClue is a point where another call may run.  A call
\* holds its own parsed copy of the LobbyState between getLobbyState and
\* saveLobbyState.
NoLobby == NewLobbyState(Null, NoId)
IdleCall == [pc |-> "idle", code |-> Null, playerId |-> Null, clue |-> Null,
             lobby |-> NoLobby, turnOrder |-> Undefined, success |-> FALSE]

concUnchanged ==
    UNCHANGED <<impl, sockNext, conns, lobbies, timers, out, ballots, tallied, session, db, ctx>>

CallSubmitClue(h, code, playerId, clue) ==
    /\ impl = "overlap"
    /\ calls[h].pc = "idle"
    /\ calls' = [calls EXCEPT ![h] = [IdleCall EXCEPT !.pc = "getLobbyState",
                    !.code = code, !.playerId = playerId, !.clue = clue]]
    /\ UNCHANGED <<redisLobby, redisLobbyPlayers>>
    /\ concUnchanged

\* await lobbyService.getLobbyState(code), then the status check
ClueGetLobbyState(h) ==
    /\ impl = "overlap"
    /\ calls[h].pc = "getLobbyState"
    /\ LET code == calls[h].code IN
       IF code \notin DOMAIN redisLobby \/ redisLobby[code].status # "playing"
       THEN calls' = [calls EXCEPT ![h].pc = "returned"]
       ELSE calls' = [calls EXCEPT ![h].pc = "getLobbyPlayers",
                                   ![h].lobby = redisLobby[code]]
    /\ UNCHANGED <<redisLobby, redisLobbyPlayers>>
    /\ concUnchanged

\* await lobbyService.getLobbyPlayers(code), the turn check and the changes
\* to the call's copy up to the save
ClueGetLobbyPlayers(h) ==
    /\ impl = "overlap"
    /\ calls[h].pc = "getLobbyPlayers"
    /\ LET c == calls[h] IN
       IF currentPlayerId(c.lobby) # c.playerId
       THEN calls' = [calls EXCEPT ![h].pc = "returned", ![h].lobby = NoLobby]
       ELSE calls' = [calls EXCEPT
               ![h].pc = "saveLobbyState",
               ![h].turnOrder = c.lobby.currentPlayerIndex,
               ![h].lobby = ClueApplied(c.lobby, getLobbyPlayers(c.code),
                                        c.playerId, c.clue)]
    /\ UNCHANGED <<redisLobby, redisLobbyPlayers>>
    /\ concUnchanged

\* await lobbyService.saveLobbyState(code, lobby) and the return
ClueSaveLobbyState(h) ==
    /\ impl = "overlap"
    /\ calls[h].pc = "saveLobbyState"
    /\ redisLobby' = (calls[h].code :> calls[h].lobby) @@ redisLobby
    /\ calls' = [calls EXCEPT ![h].pc = "returned", ![h].success = TRUE,
                                ![h].lobby = NoLobby]
    /\ UNCHANGED redisLobbyPlayers
    /\ concUnchanged

\* --------------------------------------------- overlapping joinLobby calls
\* A joinLobby in flight: its arguments, the member record it is about to
\* store and the list addPlayerToLobby has read.  Every await is a point
\* where another call can run.
NoPlayer == [id |-> Null, socketId |-> NoId, name |-> Null, isHost |-> FALSE,
             isConnected |-> FALSE]
IdleJoin == [pc |-> "idle", code |-> Null, playerId |-> Null, socketId |-> NoId,
             playerName |-> Null, player |-> NoPlayer, players |-> <<>>,
             success |-> FALSE]

CallJoinLobby(h, code, playerId, socketId, playerName) ==
    /\ impl = "joining"
    /\ calls[h].pc = "idle"
    /\ calls' = [calls EXCEPT ![h] = [IdleJoin EXCEPT !.pc = "getLobbyState",
                    !.code = code, !.playerId = playerId, !.socketId = socketId,
                    !.playerName = playerName]]
    /\ UNCHANGED <<redisLobby, redisLobbyPlayers>>
    /\ concUnchanged

\* await this.getLobbyState(upperCode), then the checks of the lobby
JoinGetLobbyState(h) ==
    /\ impl = "joining"
    /\ calls[h].pc = "getLobbyState"
    /\ LET code == calls[h].code IN
       IF code \notin DOMAIN redisLobby \/ redisLobby[code].status # "waiting"
       THEN calls' = [calls EXCEPT ![h].pc = "returned"]
       ELSE calls' = [calls EXCEPT ![h].pc = "getLobbyPlayers"]
    /\ UNCHANGED <<redisLobby, redisLobbyPlayers>>
    /\ concUnchanged

\* await this.getLobbyPlayers(upperCode), then the checks of the list and
\* the member record to store: the existing one rebound, or a new one
JoinGetLobbyPlayers(h) ==
    /\ impl = "joining"
    /\ calls[h].pc = "getLobbyPlayers"
    /\ LET c == calls[h]
           players == getLobbyPlayers(c.code)
           existing == FindIndex(players, LAMBDA p : p.id = c.playerId)
       IN  IF \/ Len(players) >= MaxPlayers
              \/ \E i \in DOMAIN players :
                    players[i].name = c.playerName /\ players[i].id # c.playerId
           THEN calls' = [calls EXCEPT ![h].pc = "returned"]
           ELSE calls' = [calls EXCEPT
                   ![h].pc = "addPlayerToLobby",
                   ![h].player =
                      IF existing > 0
                      THEN [players[existing] EXCEPT !.socketId = c.socketId,
                                                     !.isConnected = TRUE]
                      ELSE [id |-> c.playerId, socketId |-> c.socketId,
                            name |-> c.playerName, isHost |-> FALSE,
                            isConnected |-> TRUE]]
    /\ UNCHANGED <<redisLobby, redisLobbyPlayers>>
    /\ concUnchanged

\* addPlayerToLobby: await this.getLobbyPlayers(code)
JoinAddRead(h) ==
    /\ impl = "joining"
    /\ calls[h].pc = "addPlayerToLobby"
    /\ calls' = [calls EXCEPT ![h].pc = "saveLobbyPlayers",
                                ![h].players = getLobbyPlayers(calls[h].code)]
    /\ UNCHANGED <<redisLobby, redisLobbyPlayers>>
    /\ concUnchanged

\* addPlayerToLobby: await this.saveLobbyPlayers(code, players), and the
\* return of joinLobby
JoinAddSave(h) ==
    /\ impl = "joining"
    /\ calls[h].pc = "saveLobbyPlayers"
    /\ redisLobbyPlayers' =
          (calls[h].code :> addPlayerToLobby(calls[h].players, calls[h].player))
             @@ redisLobbyPlayers
    /\ calls' = [calls EXCEPT ![h].pc = "returned", ![h].success = TRUE,
                                ![h].players = <<>>]
    /\ UNCHANGED redisLobby
    /\ concUnchanged

\* ---------------------------------------------------------- environment
\* the users of a behaviour without reconnections: one connection each
Users == DOMAIN NameSeq

AllWords == UNION {CATEGORIES[c] : c \in CategoryNames}
AllOrders == UNION {Perms([i \in 1..n |-> i]) : n \in 1..Len(NameSeq)}

\* ids a client can name in a vote: a connection opened so far, or none
VoteTargets == {NoId} \cup 1..sockNext

\* Reconnection scenarios draw less: one word, two turn orders, and votes for
\* the impostor or for nobody.
DropWords == {"Dog"}
DropOrders == {p \in AllOrders : \A i \in DOMAIN p : i > 2 => p[i] = i}
DropVoteTargets(code) ==
    {NoId} \cup (IF code \in DOMAIN lobbies THEN {lobbies[code].chameleonId} ELSE {})

\* Environment: the returning user names a member whose connection dropped
Returning(code, n) ==
    /\ code \in DOMAIN lobbies
    /\ \E i \in DOMAIN lobbies[code].players :
          /\ lobbies[code].players[i].name = n
          /\ lobbies[code].players[i].disc # NoId

\* ------------------------------------------------------- the tally alone
\* A round of M members who all vote: member k (k-th in lobby.players) holds
\* connection k and player id VoterIds[k]; ballots lists the votes in the
\* order they were cast.
MaxVoters == 4
VoterIds == <<"p1", "p2", "p3", "p4", "p5">>

\* lobby.votes after the service recorded the ballots one by one
RECURSIVE Recorded(_)
Recorded(bs) ==
    IF bs = <<>> THEN <<>>
    ELSE LET b == bs[Len(bs)] IN
         SetVote(Recorded(SubSeq(bs, 1, Len(bs) - 1)),
                 VoterIds[b.caster], VoterIds[b.target])

\* lobby.players after server.ts recorded the ballots: player.vote, hasVoted
Marked(bs) ==
    [k \in 1..Len(bs) |->
        [id |-> k, hasVoted |-> TRUE,
         vote |-> (CHOOSE b \in Range(bs) : b.caster = k).target]]

TallyService ==
    /\ impl = "tally"
    /\ tallied.service = Null
    /\ tallied' = [tallied EXCEPT !.service = tallyVotes(Recorded(ballots)).mostVoted]
    /\ UNCHANGED <<impl, sockNext, conns, lobbies, timers, out, redisLobby,
                   redisLobbyPlayers, calls, ballots, session, db, ctx>>

TallyServer ==
    /\ impl = "tally"
    /\ tallied.server = NoId
    /\ tallied' = [tallied EXCEPT !.server = Tally(SrvTargets(Marked(ballots))).mostVoted]
    /\ UNCHANGED <<impl, sockNext, conns, lobbies, timers, out, redisLobby,
                   redisLobbyPlayers, calls, ballots, session, db, ctx>>

\* ---------------------------------------------------------------------------
\* session.service.ts: the connection registry kept in Redis. A key that is not
\* set is a key outside the DOMAIN of its map; the keys of the registry live
\* for an hour and more, those of the reconnect queue for five minutes.

\* redis.setex(key, ttl, value) and redis.del(key) on one map of keys
Setex(f, k, v) == (k :> v) @@ f
Del(f, k) == [x \in DOMAIN f \ {k} |-> f[x]]

SocketSession(socketId, playerId, playerName, lobbyCode) ==
    [socketId |-> socketId, playerId |-> playerId, playerName |-> playerName,
     lobbyCode |-> lobbyCode]

\* the null that getSocketSession and getReconnectionData return
NoSocketSession == SocketSession(NoId, Null, Null, Null)

registerSocket(s, socketId, playerId, playerName, lobbyCode) ==
    [s EXCEPT
       !.socketToPlayer =
           Setex(@, socketId, SocketSession(socketId, playerId, playerName, lobbyCode)),
       !.playerToSocket = Setex(@, playerId, socketId),
       !.playerToLobby = IF lobbyCode # Null THEN Setex(@, playerId, lobbyCode) ELSE @]

getSocketSessionIn(s, socketId) ==
    IF socketId \in DOMAIN s.socketToPlayer
    THEN s.socketToPlayer[socketId]
    ELSE NoSocketSession

getSocketSession(socketId) == getSocketSessionIn(session, socketId)

getPlayerSocketId(playerId) ==
    IF playerId \in DOMAIN session.playerToSocket
    THEN session.playerToSocket[playerId]
    ELSE NoId

handleDisconnect(s, socketId) ==
    LET sess == getSocketSessionIn(s, socketId) IN
    IF sess = NoSocketSession
    THEN s
    ELSE [s EXCEPT !.reconnectQueue = Setex(@, sess.playerId, sess),
                   !.socketToPlayer = Del(@, socketId),
                   !.playerToSocket = Del(@, sess.playerId)]

getReconnectionData(playerId) ==
    IF playerId \in DOMAIN session.reconnectQueue
    THEN session.reconnectQueue[playerId]
    ELSE NoSocketSession

clearReconnection(s, playerId) == [s EXCEPT !.reconnectQueue = Del(@, playerId)]

sessUnchanged ==
    UNCHANGED <<impl, lobbies, timers, redisLobby, redisLobbyPlayers, calls, ballots,
                tallied, db, ctx>>

\* a connection is opened, or a live one speaks again, and is registered for a
\* player who is not waiting in the reconnect queue
RegisterSocket(socketId, playerId, playerName, lobbyCode) ==
    /\ impl = "session"
    /\ getReconnectionData(playerId) = NoSocketSession
    /\ \/ Fresh(socketId) /\ socketId <= MaxSock
       \/ socketId \in conns /\ getSocketSession(socketId).playerId = playerId
    /\ sockNext' = IF Fresh(socketId) THEN socketId ELSE sockNext
    /\ conns' = conns \cup {socketId}
    /\ session' = registerSocket(session, socketId, playerId, playerName, lobbyCode)
    /\ out' = Ret("registerSocket", socketId)
    /\ sessUnchanged

\* a live connection closes
HandleDisconnect(socketId) ==
    /\ impl = "session"
    /\ socketId \in conns
    /\ conns' = conns \ {socketId}
    /\ session' = handleDisconnect(session, socketId)
    /\ out' = Ret("handleDisconnect", getSocketSession(socketId).playerId)
    /\ UNCHANGED sockNext
    /\ sessUnchanged

\* a player of the reconnect queue comes back on a new connection within the
\* five minutes: the record is cleared and the connection registered
Rejoin(socketId, playerId) ==
    /\ impl = "session"
    /\ getReconnectionData(playerId) # NoSocketSession
    /\ Fresh(socketId) /\ socketId <= MaxSock
    /\ sockNext' = socketId
    /\ conns' = conns \cup {socketId}
    /\ session' = LET data == getReconnectionData(playerId) IN
                  registerSocket(clearReconnection(session, playerId), socketId, playerId,
                                 data.playerName, data.lobbyCode)
    /\ out' = Ret("rejoin", socketId)
    /\ sessUnchanged

\* REDIS_TTL.reconnect runs out
ReconnectExpires(playerId) ==
    /\ impl = "session"
    /\ playerId \in DOMAIN session.reconnectQueue
    /\ session' = clearReconnection(session, playerId)
    /\ out' = {}
    /\ UNCHANGED <<sockNext, conns>>
    /\ sessUnchanged

\* ---------------------------------------------------------------------------
\* session.service.ts: players of the player table, found by visitorId. The
\* table hands out the ids of its rows in the order of creation.

MaxRows == 4
VisitorIds == {"v1", "v2"}

\* if (visitorId): undefined and the empty string are not visitor ids
Truthy(visitorId) == visitorId # Null /\ visitorId # Empty

\* prisma.player.findUnique({ where: { visitorId } }): the index of the row, 0 for null
findUnique(d, visitorId) ==
    IF \E i \in DOMAIN d.player : d.player[i].visitorId = visitorId
    THEN CHOOSE i \in DOMAIN d.player : d.player[i].visitorId = visitorId
    ELSE 0

\* prisma.player.create
createPlayer(d, visitorId, displayName) ==
    LET player == [id |-> Len(d.player) + 1,
                   visitorId |-> IF Truthy(visitorId) THEN visitorId ELSE Null,
                   name |-> displayName] IN
    [db |-> [d EXCEPT !.player = Append(@, player)],
     ret |-> [id |-> player.id, name |-> player.name, isNew |-> TRUE]]

getOrCreatePlayerAnew(d, visitorId, displayName) == createPlayer(d, visitorId, displayName)

getOrCreatePlayer(d, visitorId, displayName) ==
    LET existing == IF Truthy(visitorId) THEN findUnique(d, visitorId) ELSE 0 IN
    IF existing # 0
    THEN [db |-> IF d.player[existing].name # displayName
                 THEN [d EXCEPT !.player[existing].name = displayName]
                 ELSE d,
          ret |-> [id |-> d.player[existing].id, name |-> displayName, isNew |-> FALSE]]
    ELSE createPlayer(d, visitorId, displayName)

GetOrCreatePlayer(visitorId, displayName) ==
    /\ impl = "identity"
    /\ Len(db.player) < MaxRows
    /\ db' = getOrCreatePlayer(db, visitorId, displayName).db
    /\ out' = Ret("getOrCreatePlayer", getOrCreatePlayer(db, visitorId, displayName).ret)
    /\ UNCHANGED <<impl, sockNext, conns, lobbies, timers, redisLobby, redisLobbyPlayers,
                   calls, ballots, tallied, session, ctx>>

\* ---------------------------------------------------------------------------
\* game.service.ts with a durable store that fails: a Prisma call that rejects
\* ends the handler there, and its caller sees the rejection. What the handler
\* saved before the call stays saved; what it would have saved after is lost.

\* startGame: any of the Prisma calls after saveLobbyState rejects
SvcStartGameThrows(code, words, orders) ==
    /\ impl = "audit"
    /\ code \in DOMAIN redisLobby
    /\ redisLobby[code].status = "waiting"
    /\ LET players == getLobbyPlayers(code) IN
       /\ Len(players) >= MinPlayers
       /\ \E category \in CategoryNames :
          \E secretWord \in CATEGORIES[category] \cap words :
          \E chameleonIndex \in DOMAIN players :
          \E order \in shuffleArray([i \in DOMAIN players |-> i]) \cap orders :
             redisLobby' = [redisLobby EXCEPT ![code] =
                 StartedState(@, players, category, secretWord, chameleonIndex, order)]
    /\ out' = Ret("startGame", "throws")
    /\ UNCHANGED redisLobbyPlayers
    /\ svcUnchanged

\* submitClue: gameClue.create, gameEvent.create or game.update rejects, all of
\* them before saveLobbyState
SvcSubmitClueThrows(code, playerId, clue) ==
    /\ impl = "audit"
    /\ code \in DOMAIN redisLobby
    /\ redisLobby[code].status = "playing"
    /\ currentPlayerId(redisLobby[code]) = playerId
    /\ out' = Ret("submitClue", "throws")
    /\ UNCHANGED <<redisLobby, redisLobbyPlayers>>
    /\ svcUnchanged

\* submitVote: gameVote.create or gameEvent.create rejects before the first
\* saveLobbyState, or game.update rejects between the two
SvcSubmitVoteThrows(code, casterId, targetId, call) ==
    /\ impl = "audit"
    /\ code \in DOMAIN redisLobby
    /\ redisLobby[code].status = "voting"
    /\ ~HasVote(redisLobby[code].votes, casterId)
    /\ LET voted == [redisLobby[code] EXCEPT !.votes = SetVote(@, casterId, targetId)] IN
       IF call = "game.update"
       THEN /\ Len(voted.votes) >= Len(getLobbyPlayers(code))
            /\ tallyVotes(voted.votes).mostVoted = voted.chameleonId
            /\ redisLobby' = [redisLobby EXCEPT ![code] = voted]
       ELSE UNCHANGED redisLobby
    /\ out' = Ret("submitVote", "throws")
    /\ UNCHANGED redisLobbyPlayers
    /\ svcUnchanged

\* submitGuess: game.update or gameEvent.create rejects, both before
\* saveLobbyState
SvcSubmitGuessThrows(code, guess) ==
    /\ impl = "audit"
    /\ code \in DOMAIN redisLobby
    /\ redisLobby[code].status = "guessing"
    /\ out' = Ret("submitGuess", "throws")
    /\ UNCHANGED <<redisLobby, redisLobbyPlayers>>
    /\ svcUnchanged

\* ---------------------------------------------------------------------------
\* lobby.service.ts createLobby, one await at a time, so that calls overlap.
\* A call draws codes until one is free in Redis and among the live games of
\* the database, writes the game record, saves the lobby and adds the host.

maxAttempts == 10
CodePool == {"ABCD", "EFGH"}

IdleCreate == [pc |-> "idle", hostPlayerId |-> Null, hostSocketId |-> NoId,
               hostName |-> Null, code |-> Null, attempts |-> 0, exists |-> FALSE,
               players |-> <<>>]

createUnchanged ==
    UNCHANGED <<impl, sockNext, conns, lobbies, timers, ballots, tallied, session, ctx>>

CallCreateLobby(h, hostPlayerId, hostSocketId, hostName) ==
    /\ impl = "codes"
    /\ calls[h].pc = "idle"
    /\ calls' = [calls EXCEPT ![h] = [IdleCreate EXCEPT !.pc = "generateCode",
                    !.hostPlayerId = hostPlayerId, !.hostSocketId = hostSocketId,
                    !.hostName = hostName]]
    /\ out' = {}
    /\ UNCHANGED <<redisLobby, redisLobbyPlayers, db, ctx>>
    /\ createUnchanged

\* the body of the do-while has run with this outcome: does the loop go round again?
generateCodeAgain(attempts, exists) == exists /\ attempts < maxAttempts

\* one pass of the do-while: a code is drawn and looked up in both stores
GenerateCodeAttempt(h, code) ==
    /\ impl = "codes"
    /\ calls[h].pc = "generateCode"
    /\ LET attempts == calls[h].attempts + 1
           exists == code \in DOMAIN redisLobby \/ code \in db.game
       IN  calls' = [calls EXCEPT ![h].code = code, ![h].attempts = attempts,
                        ![h].exists = exists,
                        ![h].pc = IF generateCodeAgain(attempts, exists)
                                  THEN "generateCode" ELSE "generated"]
    /\ out' = {}
    /\ UNCHANGED <<redisLobby, redisLobbyPlayers, db, ctx>>
    /\ createUnchanged

\* after the loop: if (attempts >= maxAttempts) throw, else return code
GenerateCodeExit(h) ==
    /\ impl = "codes"
    /\ calls[h].pc = "generated"
    /\ IF calls[h].attempts >= maxAttempts
       THEN /\ calls' = [calls EXCEPT ![h].pc = "thrown"]
            /\ out' = Ret("createLobby", "throw")
       ELSE /\ calls' = [calls EXCEPT ![h].pc = "prisma.game.create"]
            /\ out' = {}
    /\ UNCHANGED <<redisLobby, redisLobbyPlayers, db, ctx>>
    /\ createUnchanged

\* prisma.game.create, gamePlayer.create, gameEvent.create
CreateGame(h) ==
    /\ impl = "codes"
    /\ calls[h].pc = "prisma.game.create"
    /\ db' = [db EXCEPT !.game = @ \cup {calls[h].code}]
    /\ calls' = [calls EXCEPT ![h].pc = "saveLobbyState"]
    /\ out' = {}
    /\ UNCHANGED <<redisLobby, redisLobbyPlayers>>
    /\ createUnchanged

CreateSaveLobbyState(h) ==
    /\ impl = "codes"
    /\ calls[h].pc = "saveLobbyState"
    /\ redisLobby' = (calls[h].code :>
                         NewLobbyState(calls[h].hostPlayerId, calls[h].hostSocketId))
                        @@ redisLobby
    /\ calls' = [calls EXCEPT ![h].pc = "addPlayerToLobby"]
    /\ out' = {}
    /\ UNCHANGED <<redisLobbyPlayers, db, ctx>>
    /\ createUnchanged

\* addPlayerToLobby reads the list
CreateAddRead(h) ==
    /\ impl = "codes"
    /\ calls[h].pc = "addPlayerToLobby"
    /\ calls' = [calls EXCEPT ![h].players = getLobbyPlayers(calls[h].code),
                                ![h].pc = "saveLobbyPlayers"]
    /\ out' = {}
    /\ UNCHANGED <<redisLobby, redisLobbyPlayers, db, ctx>>
    /\ createUnchanged

\* and saves it with the host appended; createLobby returns
CreateAddSave(h) ==
    /\ impl = "codes"
    /\ calls[h].pc = "saveLobbyPlayers"
    /\ redisLobbyPlayers' =
          (calls[h].code :> addPlayerToLobby(calls[h].players,
              [id |-> calls[h].hostPlayerId, socketId |-> calls[h].hostSocketId,
               name |-> calls[h].hostName, isHost |-> TRUE, isConnected |-> TRUE]))
             @@ redisLobbyPlayers
    /\ calls' = [calls EXCEPT ![h].pc = "returned", ![h].players = <<>>]
    /\ out' = Ret("createLobby", calls[h].code)
    /\ UNCHANGED <<redisLobby, db, ctx>>
    /\ createUnchanged

MaxCalls == 3
Slots == 1..MaxCalls

Empty3 ==
    /\ redisLobby = << >>
    /\ redisLobbyPlayers = << >>
    /\ calls = [h \in Slots |-> IdleCall]
    /\ ballots = <<>>
    /\ tallied = [service |-> Null, server |-> NoId]
    /\ session = NoSession
    /\ db = NoDb
    /\ ctx = NoCtx

Init ==
    /\ impl \in {"server", "service"}
    /\ sockNext = 0
    /\ conns = {}
    /\ lobbies = << >>
    /\ timers = {}
    /\ out = {}
    /\ Empty3

\* the round, played by Users over one connection each (members stay: the
\* explicit leave-lobby and dropped connections are not part of it)
SrvRound ==
    \/ \E s \in Users, n \in Names : CreateLobby(s, n)
    \/ \E s \in Users, code \in Codes, n \in Names : JoinLobby(s, code, n)
    \/ \E s \in Users, code \in Codes : StartGame(s, code, AllWords, AllOrders)
    \/ \E s \in Users, code \in Codes, clue \in ClueTexts : SubmitClue(s, code, clue)
    \/ \E s \in Users, code \in Codes, v \in VoteTargets : SubmitVote(s, code, v)
    \/ \E s \in Users, code \in Codes, g \in GuessTexts : ChameleonGuess(s, code, g)
    \/ \E s \in Users, code \in Codes : PlayAgain(s, code)

\* the service layer, one call at a time; user k calls with PidSeq[k] over
\* connection k and types NameSeq[k] or the first user's name; the last user
\* is the one who may leave; votes name the impostor or are empty
SvcTargets(code) ==
    {Empty} \cup (IF code \in DOMAIN redisLobby THEN {redisLobby[code].chameleonId} ELSE {})
SvcRound ==
    \/ \E k \in Users : SvcCreateLobby(PidSeq[k], k, NameSeq[k])
    \/ \E k \in Users, code \in Codes :
          \E n \in {NameSeq[k], NameSeq[1]} : SvcJoinLobby(code, PidSeq[k], k, n)
    \/ \E code \in Codes : SvcLeaveLobby(code, PidSeq[Len(PidSeq)])
    \/ \E code \in Codes : SvcStartGame(code, DropWords, DropOrders)
    \/ \E code \in Codes, playerId \in Pids, clue \in ClueTexts :
          SvcSubmitClue(code, playerId, clue)
    \/ \E code \in Codes, casterId \in Pids :
          \E targetId \in SvcTargets(code) : SvcSubmitVote(code, casterId, targetId)
    \/ \E code \in Codes, guess \in GuessTexts : SvcSubmitGuess(code, guess)
    \/ \E code \in Codes : SvcResetLobby(code)

Next == SrvRound \/ SvcRound

Spec == Init /\ [][Next]_vars

\* the round with dropped connections, returning users and grace timers
DropNext ==
    \/ \E s \in Users, n \in Names : CreateLobby(s, n)
    \/ \E s \in Users, code \in Codes, n \in Names : JoinLobby(s, code, n)
    \/ \E s \in 1..MaxSock, code \in Codes, n \in Names :
          Returning(code, n) /\ RejoinLobby(s, code, n)
    \/ \E s \in 1..MaxSock, code \in Codes : StartGame(s, code, DropWords, DropOrders)
    \/ \E s \in 1..MaxSock, code \in Codes, clue \in ClueTexts : SubmitClue(s, code, clue)
    \/ \E s \in 1..MaxSock, code \in Codes :
          \E v \in DropVoteTargets(code) : SubmitVote(s, code, v)
    \/ \E s \in 1..MaxSock, code \in Codes, g \in GuessTexts : ChameleonGuess(s, code, g)
    \/ \E s \in 1..MaxSock, code \in Codes : PlayAgain(s, code)
    \/ \E s \in 1..MaxSock : Disconnect(s)
    \/ \E t \in timers : FireTimer(t)

DropInit == Init /\ impl = "server"

DropSpec == DropInit /\ [][DropNext]_vars

\* setTimeout runs every callback it was given
DropFairSpec == DropSpec /\ WF_vars(\E t \in timers : FireTimer(t))

\* the start of a round alone: the shuffle is not narrowed, any sequence of
\* member positions it returns is taken
AllPicks == UNION {[1..n -> 1..n] : n \in 1..Len(NameSeq)}

StartNext ==
    \/ \E s \in Users, n \in Names : CreateLobby(s, n)
    \/ \E s \in Users, code \in Codes, n \in Names : JoinLobby(s, code, n)
    \/ \E s \in Users, code \in Codes : StartGame(s, code, AllWords, AllPicks)
    \/ \E k \in Users : SvcCreateLobby(PidSeq[k], k, NameSeq[k])
    \/ \E k \in Users, code \in Codes : SvcJoinLobby(code, PidSeq[k], k, NameSeq[k])
    \/ \E code \in Codes : SvcStartGame(code, AllWords, AllPicks)

StartSpec == Init /\ [][StartNext]_vars

\* ------------------------------------------------- GameContext.tsx (client)
\* The clients coordinate over a Supabase channel created with
\* broadcast: {self: true}: a broadcast is delivered to every member of the
\* channel, the sender included.  Presence is the channel's presence state
\* once the three users have joined; the creator tracks isHost: true.
Presence ==
    [k \in DOMAIN PidSeq |-> [id |-> PidSeq[k], name |-> NameSeq[k], isHost |-> k = 1]]

\* game-engine startGameRound: every result it can return
startGameRound(players) ==
    UNION {{[category |-> category, secretWord |-> secretWord,
             chameleonId |-> players[chameleonIndex].id, playerOrder |-> order] :
               secretWord \in CATEGORIES[category],
               chameleonIndex \in DOMAIN players,
               order \in shuffleArray([i \in DOMAIN players |-> players[i].id])} :
           category \in CategoryNames}

\* the 'game-start' broadcast as delivered: recipient, and the secretWord and
\* chameleonId fields of the payload
gameStart(players, gameData) ==
    {<<"game-start", players[i].id, gameData.secretWord, gameData.chameleonId>> :
        i \in DOMAIN players}

\* startGame of the client with player id myId
CtxStartGame(myId) ==
    /\ impl = "client"
    /\ IF \/ ~\E i \in DOMAIN Presence : Presence[i].id = myId /\ Presence[i].isHost
          \/ Len(Presence) < 3
       THEN out' = {}
       ELSE \E gameData \in startGameRound(Presence) :
               out' = gameStart(Presence, gameData)
    /\ UNCHANGED <<impl, sockNext, conns, lobbies, timers>>
    /\ UNCHANGED svcVars

\* the round of server.ts, and the round start of the clients
SecretInit ==
    /\ impl \in {"server", "client"}
    /\ sockNext = 0
    /\ conns = {}
    /\ lobbies = << >>
    /\ timers = {}
    /\ out = {}
    /\ Empty3

SecretNext ==
    \/ SrvRound
    \/ \E myId \in Pids : CtxStartGame(myId)

SecretSpec == SecretInit /\ [][SecretNext]_vars

\* ------------------------------------------------------------- a full lobby
\* More users than a lobby takes: user k holds player id CrowdSeq[k], types
\* CrowdNames[k] and uses connection k.
CrowdSeq == <<"p1", "p2", "p3", "p4", "p5", "p6", "p7", "p8", "p9", "p10", "p11", "p12">>
CrowdNames == <<"a", "b", "c", "d", "e", "f", "g", "h", "i", "j", "k", "l">>

\* the members of a lobby that user 1 created and users 2..n joined in turn
Crowd(n) ==
    [k \in 1..n |-> [id |-> CrowdSeq[k], socketId |-> k, name |-> CrowdNames[k],
                     isHost |-> k = 1, isConnected |-> TRUE]]

\* overlapping joinLobby calls of the last users, on a waiting lobby that has
\* one member or one free place
Joiners == {Len(CrowdSeq) - 2, Len(CrowdSeq) - 1}

JoinInit ==
    /\ impl = "joining"
    /\ sockNext = 0
    /\ conns = {}
    /\ lobbies = << >>
    /\ timers = {}
    /\ out = {}
    /\ \E code \in Codes, n \in {1, MaxPlayers - 1} :
          /\ redisLobby = code :> NewLobbyState(CrowdSeq[1], 1)
          /\ redisLobbyPlayers = code :> Crowd(n)
    /\ calls = [h \in Slots |-> IdleJoin]
    /\ ballots = <<>>
    /\ tallied = [service |-> Null, server |-> NoId]
    /\ session = NoSession
    /\ db = NoDb
    /\ ctx = NoCtx

JoinNext ==
    \/ \E h \in Slots, code \in Codes, k \in Joiners :
          /\ \A g \in 1..(h - 1) : calls[g].pc # "idle"
          /\ CallJoinLobby(h, code, CrowdSeq[k], k, CrowdNames[k])
    \/ \E h \in Slots : JoinGetLobbyState(h)
    \/ \E h \in Slots : JoinGetLobbyPlayers(h)
    \/ \E h \in Slots : JoinAddRead(h)
    \/ \E h \in Slots : JoinAddSave(h)

JoinSpec == JoinInit /\ [][JoinNext]_vars

\* Users arrive one after the other, each over its own connection, and ask
\* to join on arrival under their own name or under the first user's; the
\* host may start the round once three users are in.
Crowded == DOMAIN CrowdSeq

\* user k arrives after every member of the lobby
ArrivesLast(code, k) ==
    \A i \in DOMAIN getLobbyPlayers(code) : getLobbyPlayers(code)[i].socketId < k

\* the host starts the round as soon as the lobby has the members it needs
SrvTrio(code) == code \in DOMAIN lobbies /\ Len(lobbies[code].players) = MinPlayersSrv
SvcTrio(code) == code \in DOMAIN redisLobby /\ Len(getLobbyPlayers(code)) = MinPlayers

FullNext ==
    \/ \E n \in {CrowdNames[1]} : CreateLobby(1, n)
    \/ \E s \in Crowded, code \in Codes :
          \E n \in {CrowdNames[s], CrowdNames[1]} : Fresh(s) /\ JoinLobby(s, code, n)
    \/ \E s \in Crowded, code \in Codes :
          SrvTrio(code) /\ StartGame(s, code, DropWords, DropOrders)
    \/ SvcCreateLobby(CrowdSeq[1], 1, CrowdNames[1])
    \/ \E k \in Crowded, code \in Codes :
          \E n \in {CrowdNames[k], CrowdNames[1]} :
             ArrivesLast(code, k) /\ SvcJoinLobby(code, CrowdSeq[k], k, n)
    \/ \E code \in Codes : SvcTrio(code) /\ SvcStartGame(code, DropWords, DropOrders)

FullSpec == Init /\ [][FullNext]_vars

\* Membership of a lobby that more users want to enter than it takes: each of
\* them joins or rejoins on arrival under its own name; the member who has
\* been in longest leaves, or its connection drops and its grace timer runs.
Comers == 1..(MaxPlayers + 1)

SrvOldest(s, code) ==
    /\ code \in DOMAIN lobbies
    /\ lobbies[code].players # <<>>
    /\ lobbies[code].players[1].id = s

SvcOldest(playerId, code) ==
    /\ getLobbyPlayers(code) # <<>>
    /\ getLobbyPlayers(code)[1].id = playerId

BoundsNext ==
    \/ CreateLobby(1, CrowdNames[1])
    \/ \E s \in Comers, code \in Codes : Fresh(s) /\ JoinLobby(s, code, CrowdNames[s])
    \/ \E s \in Comers, code \in Codes : Fresh(s) /\ RejoinLobby(s, code, CrowdNames[s])
    \/ \E s \in Comers, code \in Codes : SrvOldest(s, code) /\ LeaveLobby(s, code)
    \/ \E s \in Comers, code \in Codes : SrvOldest(s, code) /\ Disconnect(s)
    \/ \E t \in timers : FireTimer(t)
    \/ SvcCreateLobby(CrowdSeq[1], 1, CrowdNames[1])
    \/ \E k \in Comers, code \in Codes :
          ArrivesLast(code, k) /\ SvcJoinLobby(code, CrowdSeq[k], k, CrowdNames[k])
    \/ \E k \in Comers, code \in Codes :
          SvcOldest(CrowdSeq[k], code) /\ SvcLeaveLobby(code, CrowdSeq[k])

BoundsSpec == Init /\ [][BoundsNext]_vars

\* membership alone: users come, go, drop and return; no round is started.
\* In the service layer user k reconnects over connection k + Len(PidSeq).
HostNext ==
    \/ \E s \in 1..MaxSock, n \in Names : CreateLobby(s, n)
    \/ \E s \in 1..MaxSock, code \in Codes, n \in Names : JoinLobby(s, code, n)
    \/ \E s \in 1..MaxSock, code \in Codes, n \in Names :
          Returning(code, n) /\ RejoinLobby(s, code, n)
    \/ \E s \in 1..MaxSock, code \in Codes : LeaveLobby(s, code)
    \/ \E s \in 1..MaxSock : Disconnect(s)
    \/ \E t \in timers : FireTimer(t)
    \/ \E k \in Users : SvcCreateLobby(PidSeq[k], k, NameSeq[k])
    \/ \E k \in Users, code \in Codes : SvcJoinLobby(code, PidSeq[k], k, NameSeq[k])
    \/ \E code \in Codes, playerId \in Pids : SvcLeaveLobby(code, playerId)
    \/ \E code \in Codes, playerId \in Pids : SvcDisconnect(code, playerId)
    \/ \E k \in Users, code \in Codes : SvcReconnect(code, PidSeq[k], k + Len(PidSeq))

HostSpec == Init /\ [][HostNext]_vars

\* overlapping submitClue calls on a round that startGame has just opened for
\* the three users
ConcPlayers ==
    [k \in DOMAIN PidSeq |->
        [id |-> PidSeq[k], socketId |-> k, name |-> NameSeq[k],
         isHost |-> k = 1, isConnected |-> TRUE]]

ConcInit ==
    /\ impl = "overlap"
    /\ sockNext = 0
    /\ conns = {}
    /\ lobbies = << >>
    /\ timers = {}
    /\ out = {}
    /\ \E code \in Codes, chameleonIndex \in DOMAIN ConcPlayers :
       \E order \in shuffleArray([i \in DOMAIN ConcPlayers |-> i]) \cap DropOrders :
          /\ redisLobby = code :>
                StartedState(NewLobbyState(PidSeq[1], 1), ConcPlayers, "Animals",
                             "Dog", chameleonIndex, order)
          /\ redisLobbyPlayers = code :> ConcPlayers
    /\ calls = [h \in Slots |-> IdleCall]
    /\ ballots = <<>>
    /\ tallied = [service |-> Null, server |-> NoId]
    /\ session = NoSession
    /\ db = NoDb
    /\ ctx = NoCtx

ConcNext ==
    \/ \E h \in Slots, code \in Codes, playerId \in Pids, clue \in ClueTexts :
          /\ \A g \in 1..(h - 1) : calls[g].pc # "idle"
          /\ CallSubmitClue(h, code, playerId, clue)
    \/ \E h \in Slots : ClueGetLobbyState(h)
    \/ \E h \in Slots : ClueGetLobbyPlayers(h)
    \/ \E h \in Slots : ClueSaveLobbyState(h)

ConcSpec == ConcInit /\ [][ConcNext]_vars

\* the tally of every round of MinPlayers..MaxVoters members who all voted,
\* for one of the first MinPlayers members each
BallotSeqs(m) ==
    {bs \in [1..m -> [caster : 1..m, target : 1..MinPlayers]] :
        \A i, j \in 1..m : i # j => bs[i].caster # bs[j].caster}

TallyInit ==
    /\ impl = "tally"
    /\ sockNext = 0
    /\ conns = {}
    /\ lobbies = << >>
    /\ timers = {}
    /\ out = {}
    /\ redisLobby = << >>
    /\ redisLobbyPlayers = << >>
    /\ calls = [h \in Slots |-> IdleCall]
    /\ ballots \in UNION {BallotSeqs(m) : m \in MinPlayers..MaxVoters}
    /\ tallied = [service |-> Null, server |-> NoId]
    /\ session = NoSession
    /\ db = NoDb
    /\ ctx = NoCtx

TallyNext == TallyService \/ TallyServer

TallySpec == TallyInit /\ [][TallyNext]_vars

\* ================================================================== claims

\* ---- C8 (TallySpec)
CastTargets == [i \in DOMAIN ballots |-> ballots[i].target]
JoinTargets == [k \in DOMAIN ballots |-> Marked(ballots)[k].vote]
MaxCount(targets) ==
    CHOOSE m \in 0..Len(targets) :
        /\ \A x \in Range(targets) : Count(targets, x) <= m
        /\ \E x \in Range(targets) : Count(targets, x) = m
Leaders(targets) == {x \in Range(targets) : Count(targets, x) = MaxCount(targets)}
Min(S) == CHOOSE n \in S : \A k \in S : n <= k
\* the candidate whose running count is the first to reach the final maximum
FirstToReachMax(targets) ==
    targets[Min({n \in DOMAIN targets :
        Count(SubSeq(targets, 1, n), targets[n]) = MaxCount(targets)})]
\* the leader whose first vote comes earliest in the sequence
EarliestLeader(targets) ==
    targets[Min({n \in DOMAIN targets : targets[n] \in Leaders(targets)})]

\* C8 as stated: with all M members voting the winner is the candidate with
\* the strictly highest count, and on a tie the tied candidate whose running
\* count was first to reach the shared maximum in the order the votes were cast.
C8_FirstToReachMaxWins ==
    /\ tallied.service # Null =>
          tallied.service = VoterIds[FirstToReachMax(CastTargets)]
    /\ tallied.server # NoId =>
          tallied.server = FirstToReachMax(CastTargets)

\* C8 amended: the winner has the highest count (it is the one candidate with
\* the strictly highest count when there is one); on a tie the winner is the
\* tied candidate who received a vote earliest in the order the tally reads
\* the votes: the order they were cast in the service layer and game-engine,
\* the voters' join order in server.ts.
C8_EarliestLeaderWins ==
    /\ tallied.service # Null =>
          /\ tallied.service = VoterIds[EarliestLeader(CastTargets)]
          /\ \E x \in Leaders(CastTargets) : tallied.service = VoterIds[x]
    /\ tallied.server # NoId =>
          /\ tallied.server = EarliestLeader(JoinTargets)
          /\ tallied.server \in Leaders(CastTargets)

\* a tallied round with a tie in which neither the service layer nor
\* server.ts names the candidate who was first to reach the maximum
C8_Witness ==
    /\ tallied.service # Null
    /\ tallied.server # NoId
    /\ Cardinality(Leaders(CastTargets)) > 1
    /\ tallied.service # VoterIds[FirstToReachMax(CastTargets)]
    /\ tallied.server # FirstToReachMax(CastTargets)

\* ---- C1 (ConcSpec)
\* two calls that both returned success recorded their clue for the same turn
TurnConsumedTwice ==
    \E g, h \in Slots :
        /\ g # h
        /\ calls[g].success /\ calls[h].success
        /\ calls[g].turnOrder = calls[h].turnOrder

\* C1 as stated: whatever the interleaving of submitClue calls on a lobby, the
\* stored currentPlayerIndex never decreases, a save advances it by at most
\* one, and no turn is consumed by two calls.
C1_ExactlyOnceTurns ==
    [][/\ \A code \in DOMAIN redisLobby :
             /\ redisLobby'[code].currentPlayerIndex >= redisLobby[code].currentPlayerIndex
             /\ redisLobby'[code].currentPlayerIndex <= redisLobby[code].currentPlayerIndex + 1
       /\ ~TurnConsumedTwice']_vars

\* ---- reconnection claims (DropSpec)
MemberNames(lobby) == [i \in DOMAIN lobby.players |-> lobby.players[i].name]
HasName(lobby, n) == \E i \in DOMAIN lobby.players : lobby.players[i].name = n
Named(lobby, n) == lobby.players[FindIndex(lobby.players, LAMBDA p : p.name = n)]
\* the step is the callback t firing (nothing else removes a timer)
Fires(t) == t \in timers /\ timers' = timers \ {t}

\* C2: a deferred check created by a disconnect that the player has since
\* rejoined from (the member of that name is bound to a later connection)
\* changes nothing when it fires: no removal, no host transfer, no reset, no
\* notice.
C2_NoStaleExpiry ==
    [][\A t \in timers :
          (/\ Fires(t)
           /\ t.code \in DOMAIN lobbies
           /\ HasName(lobbies[t.code], t.playerName)
           /\ Named(lobbies[t.code], t.playerName).id # t.socketId)
          => lobbies' = lobbies /\ out' = {}]_vars

\* a running round whose members are all connected, one of them over a
\* connection opened for a rejoin, with every deferred check already fired
C2_Witness ==
    /\ timers = {}
    /\ \E code \in DOMAIN lobbies :
          /\ lobbies[code].state = "playing"
          /\ Len(lobbies[code].players) = Len(NameSeq)
          /\ \A i \in DOMAIN lobbies[code].players :
                lobbies[code].players[i].disc = NoId
          /\ \E i \in DOMAIN lobbies[code].players :
                lobbies[code].players[i].id > Len(NameSeq)

\* the lobby as its members know it: who is in it, host, phase, impostor, turn
\* order and turn, and each member's clue and vote, by player name
NameOfId(lobby, id) ==
    IF \E i \in DOMAIN lobby.players : lobby.players[i].id = id
    THEN lobby.players[FindIndex(lobby.players, LAMBDA p : p.id = id)].name
    ELSE Null
LobbyView(lobby) ==
    [members  |-> MemberNames(lobby),
     host     |-> NameOfId(lobby, lobby.host),
     state    |-> lobby.state,
     impostor |-> NameOfId(lobby, lobby.chameleonId),
     order    |-> [i \in DOMAIN lobby.playerOrder |-> lobby.playerOrder[i].name],
     turn     |-> lobby.currentPlayerIndex,
     clues    |-> [i \in DOMAIN lobby.players |-> lobby.players[i].clue],
     voted    |-> [i \in DOMAIN lobby.players |-> lobby.players[i].hasVoted],
     votes    |-> [i \in DOMAIN lobby.players |->
                     IF lobby.players[i].vote = NoId THEN Null
                     ELSE NameOfId(lobby, lobby.players[i].vote)]]
\* the step is a 'disconnect', or a 'rejoin-lobby' that rebinds a member
IsDisconnect == sockNext' = sockNext /\ conns' # conns
IsRebind == out' = {ToSock("rejoin-success", sockNext')} /\ sockNext' # sockNext

\* C3 as stated: a disconnect and the rejoin of the same player leave the
\* members, status, impostor, turn order, turn index, clues and votes of the
\* lobby as they were.
C3_IdempotentRecovery ==
    [][(IsDisconnect \/ IsRebind) =>
          \A code \in DOMAIN lobbies :
             /\ code \in DOMAIN lobbies'
             /\ LobbyView(lobbies'[code]) = LobbyView(lobbies[code])]_vars

\* C4, effect: when the deferred check of a member who has not rejoined fires
\* and other members remain, the member is removed and the others keep their
\* places; if the status was playing, voting or chameleon-guessing the lobby
\* is back in waiting and the room is sent game-interrupted.
C4_ExpiryEffect ==
    \A t \in timers :
       (/\ Fires(t)
        /\ t.code \in DOMAIN lobbies
        /\ Expired(lobbies[t.code], t)
        /\ Len(lobbies[t.code].players) > 1)
       => /\ t.code \in DOMAIN lobbies'
          /\ MemberNames(lobbies'[t.code]) =
                SelectSeq(MemberNames(lobbies[t.code]), LAMBDA n : n # t.playerName)
          /\ lobbies[t.code].state \in {"playing", "voting", "chameleon-guessing"} =>
                /\ lobbies'[t.code].state = "waiting"
                /\ out' = {ToRoom("game-interrupted", t.code)}

Dropped(n) ==
    \E code \in DOMAIN lobbies :
       /\ HasName(lobbies[code], n)
       /\ Named(lobbies[code], n).disc # NoId

\* C4: a member whose connection dropped is eventually rejoined or removed,
\* and the expiry has the effect above.
C4_GraceExpiry ==
    /\ [][C4_ExpiryEffect]_vars
    /\ \A n \in Names : Dropped(n) ~> ~Dropped(n)

\* a lobby back in waiting, the room told game-interrupted, one member fewer
C4_Witness ==
    /\ out = {ToRoom("game-interrupted", "ABCD")}
    /\ "ABCD" \in DOMAIN lobbies
    /\ lobbies["ABCD"].state = "waiting"
    /\ Len(lobbies["ABCD"].players) = Len(NameSeq) - 1

\* ---- round claims (Spec)
\* s holds the turn in the server's lobby code / playerId in the stored one
SrvInTurn(s, code) ==
    /\ code \in DOMAIN lobbies
    /\ lobbies[code].state = "playing"
    /\ lobbies[code].currentPlayerIndex + 1 \in DOMAIN lobbies[code].playerOrder
    /\ lobbies[code].playerOrder[lobbies[code].currentPlayerIndex + 1].id = s
SvcInTurn(code, playerId) ==
    /\ code \in DOMAIN redisLobby
    /\ redisLobby[code].status = "playing"
    /\ redisLobby[code].currentPlayerIndex + 1 \in DOMAIN redisLobby[code].playerOrder
    /\ redisLobby[code].playerOrder[redisLobby[code].currentPlayerIndex + 1] = playerId

\* C5: a submitClue from anyone but the player at the turn index, or outside
\* status playing, changes nothing of the lobby; server.ts emits nothing and
\* the service call returns success: false.
C5_RejectedClueIsIgnored ==
    [][/\ \A s \in Users, code \in Codes, clue \in ClueTexts :
             (SubmitClue(s, code, clue) /\ ~SrvInTurn(s, code))
             => lobbies' = lobbies /\ out' = {}
       /\ \A playerId \in Pids, code \in Codes, clue \in ClueTexts :
             (SvcSubmitClue(code, playerId, clue) /\ ~SvcInTurn(code, playerId))
             => /\ redisLobby' = redisLobby
                /\ redisLobbyPlayers' = redisLobbyPlayers
                /\ out' = Ret("submitClue", "false")]_vars

\* a round with one clue given, right after a submitClue that was turned down
C5_Witness ==
    /\ out = Ret("submitClue", "false")
    /\ \E code \in DOMAIN redisLobby :
          /\ redisLobby[code].status = "playing"
          /\ redisLobby[code].currentPlayerIndex = 1

\* what an accepted submitClue does, given the count that opens the voting
SrvClueStep(s, code, clue, last) ==
    LET lobby == lobbies[code]
        after == lobbies'[code]
        index == lobby.currentPlayerIndex + 1
    IN  /\ \E i \in DOMAIN after.players :
              after.players[i].id = s /\ after.players[i].clue = clue
        /\ after.currentPlayerIndex = index
        /\ after.playerOrder = [i \in DOMAIN lobby.playerOrder |->
              IF lobby.playerOrder[i].id = s
              THEN [lobby.playerOrder[i] EXCEPT !.clue = clue]
              ELSE lobby.playerOrder[i]]
        /\ after.state = IF index >= last THEN "voting" ELSE "playing"
SvcClueStep(code, playerId, clue, last) ==
    LET lobby == redisLobby[code]
        after == redisLobby'[code]
        index == lobby.currentPlayerIndex + 1
    IN  /\ playerId \in DOMAIN after.clues /\ after.clues[playerId] = clue
        /\ after.currentPlayerIndex = index
        /\ after.playerOrder = lobby.playerOrder
        /\ after.status = IF index >= last THEN "voting" ELSE "playing"

LegalEdges ==
    {<<"waiting", "playing">>, <<"playing", "voting">>,
     <<"voting", "guessing">>, <<"voting", "chameleon-guessing">>,
     <<"voting", "finished">>, <<"voting", "results">>,
     <<"guessing", "finished">>, <<"chameleon-guessing", "results">>,
     <<"finished", "waiting">>, <<"results", "waiting">>}

\* C7 as stated: under start, clue, vote, guess and play-again a lobby's status
\* changes only along waiting -> playing -> voting -> guessing | finished,
\* guessing -> finished and finished -> waiting; a reset in any status but
\* finished changes nothing.
C7_OnlyLegalTransitions ==
    [][/\ \A code \in DOMAIN lobbies \cap DOMAIN lobbies' :
             \/ lobbies'[code].state = lobbies[code].state
             \/ <<lobbies[code].state, lobbies'[code].state>> \in LegalEdges
       /\ \A code \in DOMAIN redisLobby \cap DOMAIN redisLobby' :
             \/ redisLobby'[code].status = redisLobby[code].status
             \/ <<redisLobby[code].status, redisLobby'[code].status>> \in LegalEdges
       /\ \A s \in Users, code \in Codes :
             (/\ PlayAgain(s, code)
              /\ code \in DOMAIN lobbies
              /\ lobbies[code].state # "results") => lobbies' = lobbies
       /\ \A code \in Codes :
             (/\ SvcResetLobby(code)
              /\ code \in DOMAIN redisLobby
              /\ redisLobby[code].status # "finished") => redisLobby' = redisLobby]_vars

\* the voter has a recorded vote in the round
SrvHasVoted(s, code) ==
    /\ code \in DOMAIN lobbies
    /\ \E i \in DOMAIN lobbies[code].players :
          lobbies[code].players[i].id = s /\ lobbies[code].players[i].hasVoted
SvcHasVoted(code, casterId) ==
    /\ code \in DOMAIN redisLobby
    /\ \E i \in DOMAIN redisLobby[code].votes :
          redisLobby[code].votes[i].caster = casterId

\* C9 as stated: once a voter has a recorded vote, a later submitVote by the
\* same voter, whatever target either call names, changes neither the recorded
\* votes nor the status.
C9_FirstVoteWins ==
    [][/\ \A s \in Users, code \in Codes, v \in 0..Len(NameSeq) :
             (SubmitVote(s, code, v) /\ SrvHasVoted(s, code)) => lobbies' = lobbies
       /\ \A casterId \in Pids, code \in Codes, targetId \in Pids \cup {Empty} :
             (SvcSubmitVote(code, casterId, targetId) /\ SvcHasVoted(code, casterId))
             => redisLobby' = redisLobby]_vars

\* every current member has a recorded vote
SrvAllVoted(lobby) == \A i \in DOMAIN lobby.players : lobby.players[i].hasVoted
SvcAllVoted(lobby, players) ==
    \A i \in DOMAIN players :
       \E j \in DOMAIN lobby.votes : lobby.votes[j].caster = players[i].id

\* C10 as stated: a vote leaves the status at voting until every current
\* member has a recorded vote; the vote that completes the set moves it to
\* guessing if the tally winner is the impostor and to finished otherwise.
C10_VoteResolution ==
    [][/\ \A s \in Users, code \in Codes, v \in 0..Len(NameSeq) :
             (/\ SubmitVote(s, code, v)
              /\ code \in DOMAIN lobbies
              /\ lobbies[code].state = "voting")
             => lobbies'[code].state =
                   IF ~SrvAllVoted(lobbies'[code]) THEN "voting"
                   ELSE IF Tally(SrvTargets(lobbies'[code].players)).mostVoted
                              = lobbies'[code].chameleonId
                        THEN "chameleon-guessing" ELSE "results"
       /\ \A casterId \in Pids, code \in Codes, targetId \in Pids \cup {Empty} :
             (/\ SvcSubmitVote(code, casterId, targetId)
              /\ code \in DOMAIN redisLobby
              /\ redisLobby[code].status = "voting")
             => redisLobby'[code].status =
                   IF ~SvcAllVoted(redisLobby'[code], getLobbyPlayers(code)) THEN "voting"
                   ELSE IF tallyVotes(redisLobby'[code].votes).mostVoted
                              = redisLobby'[code].chameleonId
                        THEN "guessing" ELSE "finished"]_vars

\* ---- C11 (HostSpec)
\* the positions of the members that carry the host flag
SrvHosts(lobby) == {i \in DOMAIN lobby.players : lobby.players[i].isHost}
SvcHosts(players) == {i \in DOMAIN players : players[i].isHost}

\* C11: while a lobby has at least one member, exactly one member carries the
\* host flag, and that member is the one the lobby's host pointer names
\* (lobby.host in server.ts, hostId in the service layer).
C11_SingleHost ==
    /\ \A code \in DOMAIN lobbies :
          LET lobby == lobbies[code] IN
          lobby.players # <<>> =>
             /\ Cardinality(SrvHosts(lobby)) = 1
             /\ \A i \in SrvHosts(lobby) : lobby.players[i].id = lobby.host
    /\ \A code \in DOMAIN redisLobby :
          LET players == getLobbyPlayers(code) IN
          players # <<>> =>
             /\ Cardinality(SvcHosts(players)) = 1
             /\ \A i \in SvcHosts(players) : players[i].id = redisLobby[code].hostId

\* the host has just left a lobby of the service layer in which a member
\* remains, and that member holds the flag and the pointer
C11_Witness ==
    \E code \in DOMAIN redisLobby :
       /\ out = Ret("leaveLobby", redisLobby[code].hostId)
       /\ getLobbyPlayers(code) # <<>>
       /\ getLobbyPlayers(code)[1].isHost

\* ---- C12 (HostSpec)
\* the member to promote: the first connected one, else the first
SrvFirstConnected(players) ==
    IF \E i \in DOMAIN players : players[i].disc = NoId
    THEN Min({i \in DOMAIN players : players[i].disc = NoId})
    ELSE 1
SvcFirstConnected(players) ==
    IF \E i \in DOMAIN players : players[i].isConnected
    THEN Min({i \in DOMAIN players : players[i].isConnected})
    ELSE 1

\* the host of the lobby is no longer one of its members after the step
SrvHostGone(old, new) ==
    /\ new.players # <<>>
    /\ \E i \in SrvHosts(old) : ~HasName(new, old.players[i].name)
SvcHostGone(old, new) ==
    /\ new # <<>>
    /\ \E i \in SvcHosts(old) : \A j \in DOMAIN new : new[j].id # old[i].id

\* C12: when the host leaves, explicitly or by grace expiry, and members
\* remain, the new host is the first member by join order among those
\* currently connected, and the first by join order only if none is connected.
C12_HostTransferPrefersConnected ==
    [][/\ \A code \in DOMAIN lobbies \cap DOMAIN lobbies' :
            SrvHostGone(lobbies[code], lobbies'[code]) =>
               SrvHosts(lobbies'[code]) = {SrvFirstConnected(lobbies'[code].players)}
       /\ \A code \in DOMAIN redisLobbyPlayers \cap DOMAIN redisLobbyPlayers' :
            SvcHostGone(redisLobbyPlayers[code], redisLobbyPlayers'[code]) =>
               SvcHosts(redisLobbyPlayers'[code]) =
                  {SvcFirstConnected(redisLobbyPlayers'[code])}]_vars

\* ---- C13 (StartSpec)
\* seq lists every element of the set exactly once
ListsOnce(seq, set) ==
    /\ Range(seq) = set
    /\ Len(seq) = Cardinality(set)

SrvStarted(code) ==
    /\ \E s \in Users : StartGame(s, code, AllWords, AllPicks)
    /\ \E m \in out' : m[1] = "game-started"

SvcStarted(code) ==
    /\ SvcStartGame(code, AllWords, AllPicks)
    /\ out' # Ret("startGame", "null")

\* C13: a successful start with N >= 3 members assigns exactly one impostor
\* who is a current member, a turn order that is a permutation of exactly the
\* current members, a secret word of the chosen category's word set, turn
\* index 0 and no clues and no votes.
C13_StartAssignsRound ==
    [][\A code \in Codes :
        /\ SrvStarted(code) =>
             LET lobby == lobbies'[code] IN
             /\ Len(lobby.players) >= MinPlayersSrv
             /\ Cardinality({i \in DOMAIN lobby.players :
                                lobby.players[i].id = lobby.chameleonId}) = 1
             /\ ListsOnce(lobby.playerOrder, Range(lobby.players))
             /\ Cardinality(Range(lobby.players)) = Len(lobby.players)
             /\ lobby.category \in CategoryNames
             /\ lobby.secretWord \in CATEGORIES[lobby.category]
             /\ lobby.currentPlayerIndex = 0
             /\ \A i \in DOMAIN lobby.players :
                   /\ lobby.players[i].clue = Null
                   /\ lobby.players[i].vote = NoId
                   /\ ~lobby.players[i].hasVoted
        /\ SvcStarted(code) =>
             LET lobby == redisLobby'[code]
                 ids == {getLobbyPlayers(code)[i].id : i \in DOMAIN getLobbyPlayers(code)}
             IN
             /\ Len(getLobbyPlayers(code)) >= MinPlayers
             /\ Cardinality(ids) = Len(getLobbyPlayers(code))
             /\ lobby.chameleonId \in ids
             /\ ListsOnce(lobby.playerOrder, ids)
             /\ lobby.category \in CategoryNames
             /\ lobby.secretWord \in CATEGORIES[lobby.category]
             /\ lobby.currentPlayerIndex = 0
             /\ lobby.clues = <<>>
             /\ lobby.votes = <<>>]_vars

\* a round has started in which the first turn is not the first member's
C13_Witness ==
    \E code \in DOMAIN lobbies :
       /\ \E m \in out : m[1] = "game-started"
       /\ Len(lobbies[code].playerOrder) = Len(NameSeq)
       /\ lobbies[code].playerOrder[1] # lobbies[code].players[1]

\* ---- C14 (SecretSpec)
\* a round of server.ts that has not concluded, and its impostor
SrvRoundOpen(lobby) == lobby.state \in {"playing", "voting", "chameleon-guessing"}

\* C14: no message delivered to the impostor's connection before the round
\* concludes carries the secret word, and the round-start message of every
\* other member carries it.
C14_ImpostorNeverSeesWord ==
    /\ \A code \in DOMAIN lobbies : \A m \in out :
          (SrvRoundOpen(lobbies[code]) /\ m[1] = "game-started") =>
             IF m[2] = lobbies[code].chameleonId
             THEN m[3] = Null
             ELSE m[3] = lobbies[code].secretWord
    /\ \A m \in out :
          m[1] = "game-start" =>
             IF m[2] = m[4] THEN m[3] = Null ELSE m[3] # Null

\* ---- C15 (Spec)
SrvStartStep(code) == \E s \in Users : StartGame(s, code, AllWords, AllOrders)
SvcStartStep(code) == SvcStartGame(code, DropWords, DropOrders)

\* C15: startRound on a lobby whose status is not waiting leaves the lobby
\* unchanged.
C15_StartOnlyFromWaiting ==
    [][\A code \in Codes :
        /\ (/\ code \in DOMAIN lobbies
            /\ lobbies[code].state # "waiting"
            /\ SrvStartStep(code)) => lobbies' = lobbies
        /\ (/\ code \in DOMAIN redisLobby
            /\ redisLobby[code].status # "waiting"
            /\ SvcStartStep(code)) =>
               UNCHANGED <<redisLobby, redisLobbyPlayers>>]_vars

\* ---- C16 (Spec)
SrvActive(lobby) == lobby.state \in {"playing", "voting", "chameleon-guessing"}
SvcActive(lobby) == lobby.status \in {"playing", "voting", "guessing"}

\* C16: startRound on a waiting lobby with fewer than 3 members is rejected:
\* the status stays waiting and no round field is set; and no lobby is ever
\* in status playing, voting or guessing with a round that was started with
\* fewer than 3 members.
C16_MinimumPlayers ==
    [][\A code \in Codes :
        /\ (/\ code \in DOMAIN lobbies
            /\ lobbies[code].state = "waiting"
            /\ Len(lobbies[code].players) < 3
            /\ SrvStartStep(code)) =>
               /\ lobbies' = lobbies
               /\ lobbies[code].secretWord = Null
               /\ lobbies[code].chameleonId = NoId
               /\ lobbies[code].playerOrder = <<>>
        /\ (/\ code \in DOMAIN redisLobby
            /\ redisLobby[code].status = "waiting"
            /\ Len(getLobbyPlayers(code)) < 3
            /\ SvcStartStep(code)) =>
               /\ UNCHANGED <<redisLobby, redisLobbyPlayers>>
               /\ redisLobby[code].secretWord = Null
               /\ redisLobby[code].chameleonId = Null
               /\ redisLobby[code].playerOrder = <<>>
        /\ (code \in DOMAIN lobbies' /\ SrvActive(lobbies'[code])) =>
               Len(lobbies'[code].playerOrder) >= 3
        /\ (code \in DOMAIN redisLobby' /\ SvcActive(redisLobby'[code])) =>
               Len(redisLobby'[code].playerOrder) >= 3]_vars

\* startGame has just been refused on a waiting lobby of two members
C16_Witness ==
    \E code \in DOMAIN redisLobby :
       /\ out = Ret("startGame", "null")
       /\ redisLobby[code].status = "waiting"
       /\ Len(getLobbyPlayers(code)) = 2

\* ---- C17 (Spec)
\* submitGuess(code, guess) of the service layer carries no caller: the call
\* is the same step whichever player issues it
SvcGuessBy(caller, code, guess) == SvcSubmitGuess(code, guess)

SrvGuessLegal(s, code) ==
    /\ code \in DOMAIN lobbies
    /\ lobbies[code].state = "chameleon-guessing"
    /\ s = lobbies[code].chameleonId

SvcGuessLegal(caller, code) ==
    /\ code \in DOMAIN redisLobby
    /\ redisLobby[code].status = "guessing"
    /\ caller = redisLobby[code].chameleonId

\* C17: submitGuess takes effect only when the status is guessing and the
\* caller is the impostor; any other submitGuess leaves the state unchanged.
C17_OnlyImpostorGuesses ==
    [][\A code \in Codes, guess \in GuessTexts :
        /\ \A s \in Users :
              (~SrvGuessLegal(s, code) /\ ChameleonGuess(s, code, guess)) =>
                 lobbies' = lobbies
        /\ \A caller \in Pids :
              (~SvcGuessLegal(caller, code) /\ SvcGuessBy(caller, code, guess)) =>
                 UNCHANGED <<redisLobby, redisLobbyPlayers>>]_vars

\* ---- C18 (Spec)
\* the guess equals the secret word once both are trimmed and case-folded
SameWord(guess, word) ==
    <<guess, word>> \in {<<"Dog", "Dog">>, <<" dog ", "Dog">>, <<"Cat", "Cat">>}

\* C18: an accepted guess always moves the lobby from guessing to finished
\* (results in server.ts); the impostor wins exactly when the guess equals the
\* secret word after trimming and case-folding, otherwise the players win.
C18_GuessOutcome ==
    [][\A code \in Codes, guess \in GuessTexts :
        /\ \A s \in Users :
              (SrvGuessLegal(s, code) /\ ChameleonGuess(s, code, guess)) =>
                 /\ lobbies'[code].state = "results"
                 /\ lobbies'[code].chameleonGuessedCorrectly =
                       SameWord(guess, lobbies[code].secretWord)
        /\ (/\ code \in DOMAIN redisLobby
            /\ redisLobby[code].status = "guessing"
            /\ SvcSubmitGuess(code, guess)) =>
                 /\ redisLobby'[code].status = "finished"
                 /\ out' = Ret("submitGuess",
                              IF SameWord(guess, redisLobby[code].secretWord)
                              THEN "chameleon" ELSE "players")]_vars

\* the impostor was caught and has just won with its guess
C18_Witness ==
    \E code \in DOMAIN lobbies :
       /\ lobbies[code].state = "results"
       /\ lobbies[code].caughtChameleon
       /\ lobbies[code].chameleonGuessedCorrectly
       /\ out = {ToRoom("game-results", code)}

\* ---- C19 (JoinSpec)
StoredIds(code) == {getLobbyPlayers(code)[i].id : i \in DOMAIN getLobbyPlayers(code)}

Joined(h) == calls[h].pc = "returned" /\ calls[h].success

\* both players of two successful joinLobby calls are in the stored list
C19_BothStored ==
    \A h, g \in Slots :
       (/\ Joined(h) /\ Joined(g)
        /\ calls[h].code = calls[g].code
        /\ calls[h].playerId # calls[g].playerId) =>
           {calls[h].playerId, calls[g].playerId} \subseteq StoredIds(calls[h].code)

C19_AtMostMax ==
    \A code \in DOMAIN redisLobbyPlayers : Len(getLobbyPlayers(code)) <= MaxPlayers

\* C19: when joinLobby calls of two different players on the same lobby
\* overlap and both report success, the stored member list holds both
\* players (no update is lost), and it never holds more than maxPlayers
\* members.
C19_NoLostJoin == C19_BothStored /\ C19_AtMostMax

\* ---- C20 (FullSpec)
\* the reasons for which a join must fail
SrvJoinRefused(code, n) ==
    \/ code \notin DOMAIN lobbies
    \/ lobbies[code].state # "waiting"
    \/ Len(lobbies[code].players) >= 10
    \/ HasName(lobbies[code], n)

SvcJoinRefused(code, playerId, n) ==
    \/ code \notin DOMAIN redisLobby
    \/ redisLobby[code].status # "waiting"
    \/ Len(getLobbyPlayers(code)) >= 10
    \/ \E i \in DOMAIN getLobbyPlayers(code) :
          /\ getLobbyPlayers(code)[i].name = n
          /\ getLobbyPlayers(code)[i].id # playerId

\* C20: joinLobby fails and leaves the member list and the lobby state
\* unchanged when the lobby is absent, its status is not waiting, it already
\* has maxPlayers members, or the name is used by a member with a different
\* player id; in every other case a joining non-member is appended as a
\* connected member who is not host.
C20_JoinOutcome ==
    [][\A code \in Codes, k \in Crowded : \A n \in {CrowdNames[k], CrowdNames[1]} :
        /\ (Fresh(k) /\ JoinLobby(k, code, n)) =>
             IF SrvJoinRefused(code, n)
             THEN lobbies' = lobbies
             ELSE LET new == lobbies'[code].players[Len(lobbies'[code].players)] IN
                  /\ lobbies'[code].players = Append(lobbies[code].players, new)
                  /\ lobbies' = [lobbies EXCEPT ![code].players = lobbies'[code].players]
                  /\ new.id = k /\ new.name = n
                  /\ ~new.isHost /\ new.disc = NoId
        /\ (ArrivesLast(code, k) /\ SvcJoinLobby(code, CrowdSeq[k], k, n)) =>
             IF SvcJoinRefused(code, CrowdSeq[k], n)
             THEN UNCHANGED <<redisLobby, redisLobbyPlayers>>
             ELSE LET new == getLobbyPlayers(code)'[Len(getLobbyPlayers(code)')] IN
                  /\ getLobbyPlayers(code)' = Append(getLobbyPlayers(code), new)
                  /\ UNCHANGED redisLobby
                  /\ new.id = CrowdSeq[k] /\ new.name = n
                  /\ ~new.isHost /\ new.isConnected]_vars

\* a user has just been turned away from a waiting lobby that is full
C20_Witness ==
    \E code \in DOMAIN redisLobby :
       /\ out = Ret("joinLobby", "null")
       /\ redisLobby[code].status = "waiting"
       /\ Len(getLobbyPlayers(code)) = MaxPlayers
       /\ \A i \in DOMAIN getLobbyPlayers(code) :
             getLobbyPlayers(code)[i].name = CrowdNames[i]

\* the connection registry alone: two players, connections that come and go
TwoPids == {PidSeq[1], PidSeq[2]}

SessInit ==
    /\ impl = "session"
    /\ sockNext = 0
    /\ conns = {}
    /\ lobbies = << >>
    /\ timers = {}
    /\ out = {}
    /\ Empty3

SessNext ==
    \/ \E socketId \in 1..MaxSock, playerId \in TwoPids, lobbyCode \in Codes \cup {Null} :
          RegisterSocket(socketId, playerId, NameSeq[1], lobbyCode)
    \/ \E socketId \in 1..MaxSock : HandleDisconnect(socketId)
    \/ \E socketId \in 1..MaxSock, playerId \in TwoPids : Rejoin(socketId, playerId)
    \/ \E playerId \in TwoPids : ReconnectExpires(playerId)

SessSpec == SessInit /\ [][SessNext]_vars

\* identity resolution alone: browsers with and without a visitor id
Visitors == VisitorIds \cup {Empty, Null}

IdentInit ==
    /\ impl = "identity"
    /\ sockNext = 0
    /\ conns = {}
    /\ lobbies = << >>
    /\ timers = {}
    /\ out = {}
    /\ Empty3

IdentNext == \E visitorId \in Visitors, displayName \in Names :
                GetOrCreatePlayer(visitorId, displayName)

IdentSpec == IdentInit /\ [][IdentNext]_vars

\* the service round over a durable store that may fail at any call
PrismaCalls == {"gameVote.create", "game.update"}

AuditInit ==
    /\ impl = "audit"
    /\ sockNext = 0
    /\ conns = {}
    /\ lobbies = << >>
    /\ timers = {}
    /\ out = {}
    /\ Empty3

AuditNext ==
    \/ \E k \in Users : SvcCreateLobby(PidSeq[k], k, NameSeq[k])
    \/ \E k \in Users, code \in Codes : SvcJoinLobby(code, PidSeq[k], k, NameSeq[k])
    \/ \E code \in Codes : SvcStartGame(code, DropWords, DropOrders)
    \/ \E code \in Codes : SvcStartGameThrows(code, DropWords, DropOrders)
    \/ \E code \in Codes, playerId \in Pids, clue \in ClueTexts :
          SvcSubmitClue(code, playerId, clue)
    \/ \E code \in Codes, playerId \in Pids, clue \in ClueTexts :
          SvcSubmitClueThrows(code, playerId, clue)
    \/ \E code \in Codes, casterId \in Pids :
          \E targetId \in SvcTargets(code) : SvcSubmitVote(code, casterId, targetId)
    \/ \E code \in Codes, casterId \in Pids, call \in PrismaCalls :
          \E targetId \in SvcTargets(code) : SvcSubmitVoteThrows(code, casterId, targetId, call)
    \/ \E code \in Codes, guess \in GuessTexts : SvcSubmitGuess(code, guess)
    \/ \E code \in Codes, guess \in GuessTexts : SvcSubmitGuessThrows(code, guess)

AuditSpec == AuditInit /\ [][AuditNext]_vars

\* createLobby calls that overlap: two hosts, two codes to draw from
Creators == {1, 2}

CodesInit ==
    /\ impl = "codes"
    /\ sockNext = 0
    /\ conns = {}
    /\ lobbies = << >>
    /\ timers = {}
    /\ out = {}
    /\ redisLobby = << >>
    /\ redisLobbyPlayers = << >>
    /\ calls = [h \in Slots |-> IdleCreate]
    /\ ballots = <<>>
    /\ tallied = [service |-> Null, server |-> NoId]
    /\ session = NoSession
    /\ db = NoDb
    /\ ctx = NoCtx

CodesNext ==
    \/ \E h \in Creators : CallCreateLobby(h, PidSeq[h], h, NameSeq[h])
    \/ \E h \in Creators, code \in CodePool : GenerateCodeAttempt(h, code)
    \/ \E h \in Creators : GenerateCodeExit(h)
    \/ \E h \in Creators : CreateGame(h)
    \/ \E h \in Creators : CreateSaveLobbyState(h)
    \/ \E h \in Creators : CreateAddRead(h)
    \/ \E h \in Creators : CreateAddSave(h)

CodesSpec == CodesInit /\ [][CodesNext]_vars

\* members who come back: the two oldest members of a lobby that fills up
\* drop and join again on a new connection, under their old name or a new one
Reenterers == {1, 2}
NewSocket(k) == k + Len(CrowdSeq)
NewName(k) == CrowdNames[Len(CrowdNames) + 1 - k]
NextComer(code, k) == Len(getLobbyPlayers(code)) = k - 1

ReentryNext ==
    \/ SvcCreateLobby(CrowdSeq[1], 1, CrowdNames[1])
    \/ \E k \in Crowded, code \in Codes :
          NextComer(code, k) /\ SvcJoinLobby(code, CrowdSeq[k], k, CrowdNames[k])
    \/ \E k \in Reenterers, code \in Codes : SvcDisconnect(code, CrowdSeq[k])
    \/ \E k \in Reenterers, code \in Codes : \E n \in {CrowdNames[k], NewName(k)} :
          /\ Len(getLobbyPlayers(code)) >= k
          /\ SvcJoinLobby(code, CrowdSeq[k], NewSocket(k), n)

ReentryInit ==
    /\ impl = "service"
    /\ sockNext = 0
    /\ conns = {}
    /\ lobbies = << >>
    /\ timers = {}
    /\ out = {}
    /\ Empty3

ReentrySpec == ReentryInit /\ [][ReentryNext]_vars

\* the service round while members drop and come back on a new connection
Droppers == {1, 2}

MarkInit ==
    /\ impl = "service"
    /\ sockNext = 0
    /\ conns = {}
    /\ lobbies = << >>
    /\ timers = {}
    /\ out = {}
    /\ Empty3

MarkNext ==
    \/ SvcCreateLobby(PidSeq[1], 1, NameSeq[1])
    \/ \E k \in Users, code \in Codes :
          NextComer(code, k) /\ SvcJoinLobby(code, PidSeq[k], k, NameSeq[k])
    \/ \E code \in Codes : SvcStartGame(code, DropWords, DropOrders)
    \/ \E code \in Codes, playerId \in Pids :
          \E clue \in ClueTexts : SvcSubmitClue(code, playerId, clue)
    \/ \E code \in Codes, casterId \in Pids :
          \E targetId \in SvcTargets(code) \ {Empty} : SvcSubmitVote(code, casterId, targetId)
    \/ \E code \in Codes, playerId \in Pids : SvcDisconnect(code, playerId)
    \/ \E k \in Droppers \cup {Len(PidSeq) + 1}, code \in Codes :
          SvcReconnect(code, IF k \in Droppers THEN PidSeq[k] ELSE Empty, k + Len(PidSeq))

MarkSpec == MarkInit /\ [][MarkNext]_vars

\* the round while members leave of their own accord
LeaveNext ==
    \/ CreateLobby(1, NameSeq[1])
    \/ \E s \in Users, code \in Codes : Fresh(s) /\ JoinLobby(s, code, NameSeq[s])
    \/ \E s \in Users, code \in Codes : StartGame(s, code, DropWords, DropOrders)
    \/ \E s \in Users, code \in Codes, clue \in ClueTexts : SubmitClue(s, code, clue)
    \/ \E s \in Users, code \in Codes :
          \E v \in DropVoteTargets(code) \ {NoId} : SubmitVote(s, code, v)
    \/ \E s \in Users, code \in Codes : LeaveLobby(s, code)
    \/ SvcCreateLobby(PidSeq[1], 1, NameSeq[1])
    \/ \E k \in Users, code \in Codes :
          NextComer(code, k) /\ SvcJoinLobby(code, PidSeq[k], k, NameSeq[k])
    \/ \E code \in Codes : SvcStartGame(code, DropWords, DropOrders)
    \/ \E code \in Codes, playerId \in Pids, clue \in ClueTexts :
          SvcSubmitClue(code, playerId, clue)
    \/ \E code \in Codes, casterId \in Pids :
          \E targetId \in SvcTargets(code) \ {Empty} : SvcSubmitVote(code, casterId, targetId)
    \/ \E code \in Codes, playerId \in Pids : SvcLeaveLobby(code, playerId)

LeaveSpec == Init /\ [][LeaveNext]_vars

\* ---- C21 (BoundsSpec)
\* C21: every lobby that exists has between 1 and maxPlayers (10) members; a
\* lobby whose last member has left or expired no longer exists.
C21_MembershipBounds ==
    /\ \A code \in DOMAIN lobbies :
          /\ Len(lobbies[code].players) >= 1
          /\ Len(lobbies[code].players) <= 10
    /\ DOMAIN redisLobbyPlayers = DOMAIN redisLobby
    /\ \A code \in DOMAIN redisLobby :
          /\ Len(getLobbyPlayers(code)) >= 1
          /\ Len(getLobbyPlayers(code)) <= 10

\* a user has just been turned away by rejoin-lobby from a lobby of ten
C21_Witness ==
    \E code \in DOMAIN lobbies :
       /\ Len(lobbies[code].players) = MaxPlayersSrv
       /\ out = {ToSock("rejoin-failed", sockNext)}
\* ---- C22 (SessSpec)
\* the live connections that getSocketSession resolves to the player
Resolving(playerId) == {s \in conns : getSocketSession(s).playerId = playerId}

\* C22: each playerId has at most one live connection for which
\* getSocketSession returns that player; registering a new connection for a
\* player supersedes the previous one.
C22_OneConnectionPerPlayer == \A playerId \in TwoPids : Cardinality(Resolving(playerId)) <= 1
\* ---- C23 (IdentSpec)
\* the ids of the rows of the player table: the ids returned so far
PlayerIds == {db.player[i].id : i \in DOMAIN db.player}
Known23(visitorId) == \E i \in DOMAIN db.player : db.player[i].visitorId = visitorId

\* C23: a getOrCreatePlayer call with an already known visitorId returns the
\* id of the row created by the first call with that visitorId, with
\* isNew = false, and changes only the stored name (nothing when the name is
\* the same); a call with an unknown or absent visitorId returns an id never
\* returned before, with isNew = true, and adds one row.
C23_IdentityResolution ==
    [][\A visitorId \in Visitors, displayName \in Names :
         GetOrCreatePlayer(visitorId, displayName) =>
           \E ret \in [id : 1..(MaxRows + 1), name : Names, isNew : BOOLEAN] :
             /\ out' = Ret("getOrCreatePlayer", ret)
             /\ ret.name = displayName
             /\ ret.id \in PlayerIds'
             /\ IF visitorId \in VisitorIds /\ Known23(visitorId)
                THEN /\ ~ret.isNew
                     /\ \E i \in DOMAIN db.player :
                           /\ db.player[i].visitorId = visitorId
                           /\ db.player[i].id = ret.id
                           /\ db' = [db EXCEPT !.player[i].name = displayName]
                ELSE /\ ret.isNew
                     /\ ret.id \notin PlayerIds
                     /\ \E row \in [id : {ret.id}, visitorId : {visitorId, Null},
                                    name : {displayName}] :
                           /\ db' = [db EXCEPT !.player = Append(@, row)]
                           /\ row.visitorId = visitorId \/ visitorId = Empty]_vars

\* a known browser has just come back under another name
C23_Witness ==
    \E i \in DOMAIN db.player :
       /\ db.player[i].visitorId \in VisitorIds
       /\ Len(db.player) > i
       /\ \E n \in Names : out = Ret("getOrCreatePlayer", [id |-> i, name |-> n, isNew |-> FALSE])
\* ---- C24 (AuditSpec)
\* C24: when a durable-store write fails during startGame, submitClue,
\* submitVote or submitGuess, the lobby state is saved as the operation
\* saves it when the store works (clue or vote recorded, turn index or
\* status advanced) and the operation reports success.
C24_StoreFailureIgnored ==
    [][\A code \in Codes :
         /\ \A playerId \in Pids, clue \in ClueTexts :
               SvcSubmitClueThrows(code, playerId, clue) =>
                 /\ redisLobby' = [redisLobby EXCEPT ![code] =
                        ClueApplied(@, getLobbyPlayers(code), playerId, clue)]
                 /\ out' = Ret("submitClue", redisLobby'[code].status)
         /\ \A casterId \in Pids, call \in PrismaCalls : \A targetId \in SvcTargets(code) :
               SvcSubmitVoteThrows(code, casterId, targetId, call) =>
                 /\ redisLobby' = [redisLobby EXCEPT ![code] =
                        VoteApplied(@, getLobbyPlayers(code), casterId, targetId)]
                 /\ out' = Ret("submitVote", redisLobby'[code].status)
         /\ \A guess \in GuessTexts :
               SvcSubmitGuessThrows(code, guess) =>
                 /\ redisLobby' = [redisLobby EXCEPT ![code].status = "finished"]
                 /\ out' \in {Ret("submitGuess", "chameleon"), Ret("submitGuess", "players")}
         /\ SvcStartGameThrows(code, DropWords, DropOrders) =>
                 /\ redisLobby'[code].status = "playing"
                 /\ out' = Ret("startGame", redisLobby'[code].category)]_vars
\* ---- C25 (CodesSpec)
\* C25: createLobby yields a lobby under a code that no existing lobby has,
\* with status waiting and the creator as its only member and host; no step
\* of a createLobby call replaces or modifies a lobby that exists, also when
\* two calls overlap.
C25_CreateNeverReplaces ==
    [][\A h \in Creators :
         /\ CreateSaveLobbyState(h) =>
               \A c \in DOMAIN redisLobby : redisLobby'[c] = redisLobby[c]
         /\ CreateAddSave(h) =>
               /\ \A c \in DOMAIN redisLobbyPlayers :
                     redisLobbyPlayers'[c] = redisLobbyPlayers[c]
               /\ redisLobby'[calls[h].code].status = "waiting"
               /\ redisLobby'[calls[h].code].hostId = calls[h].hostPlayerId
               /\ Len(getLobbyPlayers(calls[h].code)') = 1
               /\ getLobbyPlayers(calls[h].code)'[1].id = calls[h].hostPlayerId
               /\ getLobbyPlayers(calls[h].code)'[1].isHost]_vars

\* ---- C26 (CodesSpec)
\* C26: generateCode makes at most 10 attempts and fails exactly when its
\* last attempt collided, that is when every attempt collided; a code found
\* free, on the 10th attempt too, is the code createLobby goes on with.
C26_BoundedCodeGeneration ==
    [][\A h \in Creators :
         GenerateCodeExit(h) =>
            /\ calls[h].attempts <= maxAttempts
            /\ calls'[h].pc = "thrown" <=> calls[h].exists
            /\ calls'[h].code = calls[h].code]_vars
\* ---- C27 (ReentrySpec)
\* C27: joinLobby by a player who is already a member, under a name that no
\* other member has, sets that member's connection id and display name in
\* place, marks it connected and changes nothing else of the member list, so
\* that the count and the order stay and no id occurs twice; also when the
\* lobby has maxPlayers members.
C27_ReentryInPlace ==
    [][\A k \in Reenterers, code \in DOMAIN redisLobbyPlayers :
         \A n \in {CrowdNames[k], NewName(k)} :
            LET players == getLobbyPlayers(code) IN
            (/\ Len(players) >= k
             /\ \A i \in DOMAIN players : players[i].name = n => i = k
             /\ SvcJoinLobby(code, CrowdSeq[k], NewSocket(k), n))
            => redisLobbyPlayers'[code] =
                  [players EXCEPT ![k].socketId = NewSocket(k), ![k].name = n,
                                  ![k].isConnected = TRUE]]_vars
\* ---- C28 (DropSpec)
\* C28: when the grace deadline elapses for a member of a lobby whose status
\* is waiting or results and other members remain, the member is removed,
\* no game-interrupted notice is emitted, and the status and the results of
\* the finished round stay as they are.
C28_ExpiryOutsideRound ==
    [][\A t \in timers :
         (/\ t.code \in DOMAIN lobbies
          /\ lobbies[t.code].state \in {"waiting", "results"}
          /\ Expired(lobbies[t.code], t)
          /\ Len(lobbies[t.code].players) > 1
          /\ FireTimer(t))
         => LET before == lobbies[t.code]
                after == lobbies'[t.code]
            IN  /\ Len(after.players) = Len(before.players) - 1
                /\ \A i \in DOMAIN after.players : after.players[i].name # t.playerName
                /\ out' # {ToRoom("game-interrupted", t.code)}
                /\ after.state = before.state
                /\ after.category = before.category
                /\ after.secretWord = before.secretWord
                /\ after.chameleonId = before.chameleonId
                /\ after.caughtChameleon = before.caughtChameleon
                /\ after.chameleonGuessedCorrectly = before.chameleonGuessedCorrectly]_vars
\* ---- C29 (DropSpec)
\* some field of a round is set in the server's lobby
SrvPopulated(lobby) ==
    \/ lobby.category # Null \/ lobby.secretWord # Null
    \/ lobby.chameleonId # NoId \/ lobby.playerOrder # <<>>
    \/ \E i \in DOMAIN lobby.players :
          \/ lobby.players[i].clue # Null
          \/ lobby.players[i].vote # NoId
          \/ lobby.players[i].hasVoted

\* some field of a round is set in the service's LobbyState
SvcPopulated(lobby) ==
    \/ lobby.category # Null \/ lobby.secretWord # Null
    \/ lobby.chameleonId # Null \/ lobby.playerOrder # <<>>
    \/ lobby.clues # <<>> \/ lobby.votes # <<>>

\* C29: category, secret word, impostor, turn order, clues and votes, those
\* kept per player included, are set only while the status is playing,
\* voting or guessing; whenever the status is waiting all of them are clear.
C29_RoundFieldsFollowStatus ==
    /\ \A code \in DOMAIN lobbies :
          SrvPopulated(lobbies[code]) =>
             lobbies[code].state \in {"playing", "voting", "chameleon-guessing"}
    /\ \A code \in DOMAIN redisLobby :
          SvcPopulated(redisLobby[code]) =>
             redisLobby[code].status \in {"playing", "voting", "guessing"}
\* ---- C30 (SessSpec)
\* the player is bound: the registry resolves the player to a connection, or a
\* live connection to the player
LiveBinding(playerId) == getPlayerSocketId(playerId) # NoId \/ Resolving(playerId) # {}

\* C30: a player has a reconnection record only while the player has no live
\* connection binding, between a disconnect and the rejoin or the expiry that
\* follows it; the queue holds one record per player at most.
C30_RecordOnlyWhileUnbound ==
    \A playerId \in TwoPids :
       getReconnectionData(playerId) # NoSocketSession => ~LiveBinding(playerId)
\* ---- C31 (MarkSpec)
\* the member list after the call differs from the one before at most in the
\* connection id and the connected flag of the member playerId
OnlyMarks(code, playerId) ==
    LET before == getLobbyPlayers(code)
        after == getLobbyPlayers(code)'
    IN  /\ DOMAIN redisLobbyPlayers' = DOMAIN redisLobbyPlayers
        /\ Len(after) = Len(before)
        /\ \A i \in DOMAIN before :
              IF before[i].id = playerId
              THEN [after[i] EXCEPT !.socketId = NoId, !.isConnected = TRUE] =
                   [before[i] EXCEPT !.socketId = NoId, !.isConnected = TRUE]
              ELSE after[i] = before[i]

SvcMember(code, playerId) ==
    \E i \in DOMAIN getLobbyPlayers(code) : getLobbyPlayers(code)[i].id = playerId

\* C31: handlePlayerDisconnect and handlePlayerReconnect change only the
\* named member's connected flag and connection id, and hostSocketId when the
\* reconnecting member is host; members, their order, every other record, the
\* host, the status and the round fields stay, and for a playerId that is not
\* a member nothing changes.
C31_MarksOnly ==
    [][\A code \in Codes, playerId \in Pids \cup {Empty} :
         /\ SvcDisconnect(code, playerId) =>
               /\ redisLobby' = redisLobby
               /\ OnlyMarks(code, playerId)
               /\ \A i \in DOMAIN getLobbyPlayers(code) :
                     getLobbyPlayers(code)[i].id = playerId =>
                        /\ ~getLobbyPlayers(code)'[i].isConnected
                        /\ getLobbyPlayers(code)'[i].socketId = getLobbyPlayers(code)[i].socketId
               /\ ~SvcMember(code, playerId) => redisLobbyPlayers' = redisLobbyPlayers
         /\ \A newSocketId \in 1..(2 * Len(PidSeq) + 1) :
               SvcReconnect(code, playerId, newSocketId) =>
                  /\ OnlyMarks(code, playerId)
                  /\ \A i \in DOMAIN getLobbyPlayers(code) :
                        getLobbyPlayers(code)[i].id = playerId =>
                           /\ getLobbyPlayers(code)'[i].isConnected
                           /\ getLobbyPlayers(code)'[i].socketId = newSocketId
                           /\ redisLobby' =
                                 IF getLobbyPlayers(code)[i].isHost
                                 THEN [redisLobby EXCEPT ![code].hostSocketId = newSocketId]
                                 ELSE redisLobby
                  /\ ~SvcMember(code, playerId) =>
                        UNCHANGED <<redisLobby, redisLobbyPlayers>>]_vars

\* a member who is not host has just come back during the voting
C31_Witness ==
    \E code \in DOMAIN redisLobby :
       /\ redisLobby[code].status = "voting"
       /\ out = Ret("handlePlayerReconnect", PidSeq[2])
       /\ getLobbyPlayers(code)[2].socketId = 2 + Len(PidSeq)
\* ---- C32 (LeaveSpec)
SrvMemberIds(code) == {lobbies[code].players[i].id : i \in DOMAIN lobbies[code].players}

\* C32: while the status is playing the player whose turn it is is a member
\* of the lobby, and while it is voting some member has still to vote, so
\* that the round never waits on a player who has left.
C32_RoundNeverWaitsOnDeparted ==
    /\ \A code \in DOMAIN lobbies :
          /\ lobbies[code].state = "playing" =>
                \E s \in SrvMemberIds(code) : SrvInTurn(s, code)
          /\ lobbies[code].state = "voting" =>
                \E i \in DOMAIN lobbies[code].players : ~lobbies[code].players[i].hasVoted
    /\ \A code \in DOMAIN redisLobby :
          /\ redisLobby[code].status = "playing" =>
                SvcMember(code, currentPlayerId(redisLobby[code]))
          /\ redisLobby[code].status = "voting" =>
                \E i \in DOMAIN getLobbyPlayers(code) :
                   ~HasVote(redisLobby[code].votes, getLobbyPlayers(code)[i].id)
\* ---- C33 (DropSpec)
\* the connection id of the member called n
IdOfName(code, n) ==
    lobbies[code].players[FindIndex(lobbies[code].players, LAMBDA p : p.name = n)].id

\* C33: a vote cast for a member is a vote for that member after the member
\* has dropped and rejoined on a new connection: the rejoin leaves every vote
\* for the old connection id standing as a vote for the new one, and a tally
\* in which every member has voted for the impostor opens the guessing.
C33_VotesFollowTarget ==
    [][\A code \in DOMAIN lobbies :
         /\ \A s \in 1..MaxSock, n \in Names :
               (Returning(code, n) /\ RejoinLobby(s, code, n)) =>
                  \A i \in DOMAIN lobbies[code].players :
                     lobbies[code].players[i].vote = IdOfName(code, n) =>
                        lobbies'[code].players[i].vote = s
         /\ (/\ lobbies[code].state = "voting"
             /\ code \in DOMAIN lobbies'
             /\ \A i \in DOMAIN lobbies'[code].players :
                   /\ lobbies'[code].players[i].hasVoted
                   /\ lobbies'[code].players[i].vote # NoId
             /\ \E s \in 1..MaxSock : SubmitVote(s, code, lobbies[code].chameleonId))
            => lobbies'[code].state = "chameleon-guessing"]_vars
\* ---- C34 (SeatSpec)
\* a round in which any connection may send rejoin-lobby under any member's
\* name, whether or not that member's connection has dropped
SeatNext ==
    \/ CreateLobby(1, NameSeq[1])
    \/ \E s \in Users, code \in Codes : Fresh(s) /\ JoinLobby(s, code, NameSeq[s])
    \/ \E s \in 1..MaxSock, code \in Codes, n \in Names : RejoinLobby(s, code, n)
    \/ \E s \in 1..MaxSock, code \in Codes : StartGame(s, code, DropWords, DropOrders)
    \/ \E s \in 1..MaxSock, code \in Codes, clue \in ClueTexts : SubmitClue(s, code, clue)
    \/ \E s \in 1..MaxSock : Disconnect(s)
    \/ \E t \in timers : FireTimer(t)

SeatSpec == DropInit /\ [][SeatNext]_vars

\* the member called n is on the list and its connection has not dropped
Seated(code, n) ==
    /\ code \in DOMAIN lobbies
    /\ \E i \in DOMAIN lobbies[code].players :
          /\ lobbies[code].players[i].name = n
          /\ lobbies[code].players[i].disc = NoId
          /\ lobbies[code].players[i].id \in conns

\* C34: a rejoin-lobby request that names a member whose connection is still
\* open leaves the seat where it is: the member's connection id, the host and
\* the impostor role are what they were before the request.
C34_RejoinNeedsVacancy ==
    [][\A code \in DOMAIN lobbies, n \in Names :
         Seated(code, n) =>
            \A s \in 1..MaxSock :
               RejoinLobby(s, code, n) =>
                  /\ IdOfName(code, n) = lobbies'[code].players[
                        FindIndex(lobbies'[code].players, LAMBDA p : p.name = n)].id
                  /\ lobbies'[code].host = lobbies[code].host
                  /\ lobbies'[code].chameleonId = lobbies[code].chameleonId]_vars
\* ---- C35 (TwinSpec)
\* membership with two codes to draw: a connection may create a lobby and
\* join another, or create twice; connections drop and their timers fire
TwinNext ==
    \/ \E s \in Users : CreateLobbyIn(CodePool, s, NameSeq[s])
    \/ \E s \in Users, code \in CodePool : JoinLobby(s, code, NameSeq[s])
    \/ \E s \in Users : Disconnect(s)
    \/ \E t \in timers : FireTimer(t)

TwinSpec == DropInit /\ [][TwinNext]_vars

\* the connection s was opened, has dropped, and every timer set for it fired
GraceElapsed(s) ==
    /\ s \in 1..sockNext
    /\ s \notin conns
    /\ \A t \in timers : t.socketId # s

\* C35: once a connection has dropped and its grace period has run out with
\* no rejoin, no lobby lists it as a member, also when it was a member of
\* more than one lobby.
C35_DroppedLeavesEveryLobby ==
    \A s \in 1..MaxSock :
       GraceElapsed(s) => \A code \in DOMAIN lobbies : ~IsMember(lobbies[code], s)
\* ---- C36 (SessSpec)
\* C36: when a player was registered on connection s1 and then on connection
\* s2, the close of s1 leaves the player resolving to s2, leaves the binding
\* of s2 as it was and writes no reconnection record for the player.
C36_StaleCloseIsHarmless ==
    [][\A s1 \in conns, s2 \in conns, playerId \in TwoPids :
         (/\ s1 # s2
          /\ getSocketSession(s1).playerId = playerId
          /\ getSocketSession(s2).playerId = playerId
          /\ getPlayerSocketId(playerId) = s2
          /\ getReconnectionData(playerId) = NoSocketSession
          /\ HandleDisconnect(s1))
         => /\ getPlayerSocketId(playerId)' = s2
            /\ getSocketSession(s2)' = getSocketSession(s2)
            /\ getReconnectionData(playerId)' = NoSocketSession]_vars
\* ---- C37 (LeaveSpec)
\* C37: submitVote called with a casterId that is not the id of a current
\* member records nothing and counts toward nothing: the votes, the status and
\* the rest of the LobbyState are what they were before the call.
C37_OnlyMembersVote ==
    [][\A code \in DOMAIN redisLobby :
         (/\ redisLobby[code].status = "voting"
          /\ \E casterId \in Pids :
                /\ ~SvcMember(code, casterId)
                /\ \E targetId \in SvcTargets(code) \ {Empty} :
                      SvcSubmitVote(code, casterId, targetId))
         => redisLobby'[code] = redisLobby[code]]_vars
\* ---- C38 (CtxSpec)
\* GameContext.tsx, the round of the clients.  Every client keeps its own
\* gamePhase, playerOrder, currentPlayerIndex and clues and changes them only
\* in the handlers of the channel's broadcasts; the channel delivers the
\* broadcasts to every client, the sender included, in the order sent.
ctxUnchanged ==
    UNCHANGED <<impl, sockNext, conns, lobbies, timers, out, redisLobby,
                redisLobbyPlayers, calls, ballots, tallied, session, db>>

WaitingClient ==
    [gamePhase |-> "waiting", playerOrder |-> <<>>, currentPlayerIndex |-> 0,
     clues |-> << >>]

\* const currentPlayerId = playerOrder[currentPlayerIndex] || null
CtxCurrentPlayerId(c) ==
    IF c.currentPlayerIndex + 1 \in DOMAIN c.playerOrder
    THEN c.playerOrder[c.currentPlayerIndex + 1]
    ELSE Null

CtxIsHost(myId) == \E i \in DOMAIN Presence : Presence[i].id = myId /\ Presence[i].isHost

\* channel.send({type: "broadcast", ...}) with broadcast: {self: true}
Broadcast(inbox, msg) == [id \in DOMAIN inbox |-> Append(inbox[id], msg)]

\* Environment: a user acts on what the screen shows once the client has
\* handled what was delivered to it
Settled(myId) == ctx.inbox[myId] = <<>>

\* startGame of the host in the lobby screen, with the broadcast sent
CtxSendGameStart(myId) ==
    /\ impl = "client"
    /\ Settled(myId)
    /\ ctx.clients[myId].gamePhase = "waiting"
    /\ CtxIsHost(myId) /\ Len(Presence) >= 3
    /\ \E gameData \in startGameRound(Presence) :
          /\ gameData.secretWord \in DropWords
          /\ gameData.chameleonId = PidSeq[1]
          /\ ctx' = [ctx EXCEPT !.inbox = Broadcast(@,
                        [event |-> "game-start", playerOrder |-> gameData.playerOrder])]
    /\ ctxUnchanged

\* submitClue of the client myId
CtxSubmitClue(myId, clue) ==
    /\ impl = "client"
    /\ Settled(myId)
    /\ LET c == ctx.clients[myId]
           nextIndex == c.currentPlayerIndex + 1
           allCluesSubmitted == nextIndex >= Len(Presence)
           sent == Broadcast(ctx.inbox,
                      [event |-> "clue-submitted", playerId |-> myId, clue |-> clue,
                       nextIndex |-> nextIndex])
       IN  /\ CtxCurrentPlayerId(c) = myId
           /\ ctx' = [ctx EXCEPT
                 !.inbox = sent,
                 !.timers = IF allCluesSubmitted /\ CtxIsHost(myId)
                            THEN @ \cup {[allClues |-> (myId :> clue) @@ c.clues]}
                            ELSE @]
    /\ ctxUnchanged

\* the setTimeout callback of submitClue, 500 ms after the host's last clue
CtxFireTimer(t) ==
    /\ impl = "client"
    /\ t \in ctx.timers
    /\ ctx' = [ctx EXCEPT
          !.timers = @ \ {t},
          !.inbox = Broadcast(@, [event |-> "voting-phase", clues |-> t.allClues])]
    /\ ctxUnchanged

\* the client myId handles the next broadcast delivered to it
CtxDeliver(myId) ==
    /\ impl = "client"
    /\ ctx.inbox[myId] # <<>>
    /\ LET msg == Head(ctx.inbox[myId])
           c == ctx.clients[myId]
           after ==
              CASE msg.event = "game-start" ->
                      [c EXCEPT !.playerOrder = msg.playerOrder,
                                !.currentPlayerIndex = 0, !.clues = << >>,
                                !.gamePhase = "playing"]
                [] msg.event = "clue-submitted" ->
                      [c EXCEPT !.clues = (msg.playerId :> msg.clue) @@ @,
                                !.currentPlayerIndex = msg.nextIndex]
                [] msg.event = "voting-phase" ->
                      [c EXCEPT !.clues = msg.clues, !.gamePhase = "voting"]
       IN  ctx' = [ctx EXCEPT !.inbox[myId] = Tail(@), !.clients[myId] = after]
    /\ ctxUnchanged

CtxInit ==
    /\ impl = "client"
    /\ sockNext = 0
    /\ conns = {}
    /\ lobbies = << >>
    /\ timers = {}
    /\ out = {}
    /\ redisLobby = << >>
    /\ redisLobbyPlayers = << >>
    /\ calls = [h \in Slots |-> IdleCall]
    /\ ballots = <<>>
    /\ tallied = [service |-> Null, server |-> NoId]
    /\ session = NoSession
    /\ db = NoDb
    /\ ctx = [clients |-> [id \in Pids |-> WaitingClient],
              inbox |-> [id \in Pids |-> <<>>], timers |-> {}]

CtxNext ==
    \/ \E myId \in Pids : CtxSendGameStart(myId)
    \/ \E myId \in Pids, clue \in ClueTexts : CtxSubmitClue(myId, clue)
    \/ \E t \in ctx.timers : CtxFireTimer(t)
    \/ \E myId \in Pids : CtxDeliver(myId)

CtxSpec == CtxInit /\ [][CtxNext]_vars

\* the channel delivers what was sent and setTimeout runs its callback
CtxFairSpec ==
    CtxSpec /\ WF_vars(\E t \in ctx.timers : CtxFireTimer(t))
            /\ \A myId \in Pids : WF_vars(CtxDeliver(myId))

\* nothing is in flight: no broadcast undelivered, no timer pending
Quiet == ctx.timers = {} /\ \A id \in Pids : ctx.inbox[id] = <<>>

\* every player of the turn order has submitted and every client has seen it
AllCluesSeen ==
    \A id \in Pids :
       /\ ctx.clients[id].gamePhase = "playing"
       /\ ctx.clients[id].currentPlayerIndex >= Len(ctx.clients[id].playerOrder)

\* C38: once every player of the turn order has submitted a clue, all clients
\* go on to the voting phase, whichever player is last in the turn order: the
\* clients are never left in the playing phase with no turn holder and
\* nothing in flight.
C38_VotingFollowsLastClue == ~(Quiet /\ AllCluesSeen)

\* C38 as a progress property: the last clue leads to voting on every client
C38_LastClueLeadsToVoting ==
    AllCluesSeen ~> \A id \in Pids : ctx.clients[id].gamePhase = "voting"
\* ---- C39 (ReentrySpec)
\* C39: in every lobby of the service layer, hostSocketId of the LobbyState is
\* the socketId stored on the member whose isHost flag is set, whatever
\* createLobby, joinLobby (a re-entry of the host on a new connection
\* included), leaveLobby and handlePlayerReconnect calls came before.
C39_HostPointerFollowsHost ==
    \A code \in DOMAIN redisLobby :
       \A i \in DOMAIN getLobbyPlayers(code) :
          getLobbyPlayers(code)[i].isHost =>
             redisLobby[code].hostSocketId = getLobbyPlayers(code)[i].socketId
\* ---- C40 (RaceSpec)
\* a joinLobby call, taken await by await, beside the startGame and submitClue
\* calls of a waiting lobby of three: the fourth user joins while the host
\* starts the round
RaceOrders == {<<1, 2, 3>>, <<1, 2, 3, 4>>}
Racers == 1..4

RaceInit ==
    /\ impl = "joining"
    /\ sockNext = 0
    /\ conns = {}
    /\ lobbies = << >>
    /\ timers = {}
    /\ out = {}
    /\ \E code \in Codes :
          /\ redisLobby = code :> NewLobbyState(CrowdSeq[1], 1)
          /\ redisLobbyPlayers = code :> Crowd(3)
    /\ calls = [h \in Slots |-> IdleJoin]
    /\ ballots = <<>>
    /\ tallied = [service |-> Null, server |-> NoId]
    /\ session = NoSession
    /\ db = NoDb
    /\ ctx = NoCtx

RaceNext ==
    \/ \E code \in Codes : CallJoinLobby(1, code, CrowdSeq[4], 4, CrowdNames[4])
    \/ JoinGetLobbyState(1)
    \/ JoinGetLobbyPlayers(1)
    \/ JoinAddRead(1)
    \/ JoinAddSave(1)
    \/ \E code \in Codes : SvcStartGame(code, DropWords, RaceOrders)
    \/ \E code \in Codes, k \in Racers, clue \in ClueTexts :
          SvcSubmitClue(code, CrowdSeq[k], clue)

RaceSpec == RaceInit /\ [][RaceNext]_vars

\* C40: while a round is in the playing status the turn index points into the
\* turn order, 0 <= currentPlayerIndex < length of the order, so there is a
\* turn holder; the index reaches the length of the order only in the step
\* that opens the voting.
C40_TurnIndexInBounds ==
    /\ \A code \in DOMAIN lobbies :
          lobbies[code].state = "playing" =>
             /\ 0 <= lobbies[code].currentPlayerIndex
             /\ lobbies[code].currentPlayerIndex < Len(lobbies[code].playerOrder)
    /\ \A code \in DOMAIN redisLobby :
          redisLobby[code].status = "playing" =>
             /\ 0 <= redisLobby[code].currentPlayerIndex
             /\ redisLobby[code].currentPlayerIndex < Len(redisLobby[code].playerOrder)
====
